---- MODULE Spec2Model ----
(***************************************************************************)
(* The production planner of src/simulation/production_planner.py as a     *)
(* state machine: run_simulation and the components it sequences           *)
(* (calculate_current_production, _calculate_material_cost_and_source,     *)
(* find_best_expansion_planet, the allocation loop, the housing loop and   *)
(* the permit loop) over one SimulationState snapshot.                     *)
(*                                                                         *)
(* Floats are modelled as exact rationals [n, d] (d = 0 is float('inf')),  *)
(* Python's None as the string "None", a dict as a sequence in insertion   *)
(* order, and the recursion of the cost resolver as an explicit stack of   *)
(* frames.                                                                 *)
(***************************************************************************)
EXTENDS Integers, Sequences, FiniteSets, TLC

None == "None"

\* ---------------------------------------------------------------- constants
MS_IN_DAY == 86400000
BASE_MAX_AREA_FIRST_PERMIT == 500
ADDITIONAL_AREA_PER_PERMIT == 250
MAX_ADDITIONAL_PERMITS == 2
PERMIT_COST == 50000
SITE_BASE_AREA_COST == 25
\* max_recursion_depth's default, the value run_simulation runs with
max_recursion_depth == 3
\* the year over which a building's construction cost is amortized
DAYS_AMORTIZED == 365

\* -------------------------------------------------------- float arithmetic
\* Every operation below applies a function, so that its operands are evaluated
\* once, to a value, before the operation is carried out.
Floats == [n : Int, d : Nat]

gcd[a \in Nat, b \in Nat] == IF b = 0 THEN a ELSE gcd[b, a % b]

GCD(a, b) == gcd[a, b]

Abs(a) == IF a < 0 THEN 0 - a ELSE a

\* the float n/d, d > 0, in lowest terms
rat[n \in Int, d \in Nat] == [n |-> n \div gcd[Abs(n), d], d |-> d \div gcd[Abs(n), d]]

Rat(n, d) == rat[n, d]

RInt(n) == [n |-> n, d |-> 1]

\* float('inf')
Inf == [n |-> 1, d |-> 0]

IsInf(a) == a.d = 0

radd[a \in Floats, b \in Floats] ==
  IF IsInf(a) \/ IsInf(b) THEN Inf ELSE rat[a.n * b.d + b.n * a.d, a.d * b.d]

RAdd(a, b) == radd[a, b]

rsub[a \in Floats, b \in Floats] == rat[a.n * b.d - b.n * a.d, a.d * b.d]

RSub(a, b) == rsub[a, b]

\* a * b for finite a, b: reduced crosswise before multiplying
rmul[a \in Floats, b \in Floats] ==
  rat[(a.n \div gcd[Abs(a.n), b.d]) * (b.n \div gcd[Abs(b.n), a.d]),
      (a.d \div gcd[Abs(b.n), a.d]) * (b.d \div gcd[Abs(a.n), b.d])]

RMul(a, b) == rmul[a, b]

\* a / b for finite a and b > 0
RDiv(a, b) == rmul[a, [n |-> b.d, d |-> b.n]]

rlt[a \in Floats, b \in Floats] ==
  IF IsInf(a) THEN FALSE
  ELSE IF IsInf(b) THEN TRUE
  ELSE a.n * b.d < b.n * a.d

RLt(a, b) == rlt[a, b]

RLe(a, b) == ~RLt(b, a)

RPos(a) == RLt(RInt(0), a)

\* math.floor(x)
Floor(a) == a.n \div a.d

\* math.ceil(x), the reference the claims compare against
Ceil(a) == 0 - ((0 - a.n) \div a.d)

\* int(x): truncation toward zero
PyInt(a) == IF a.n >= 0 THEN a.n \div a.d ELSE 0 - ((0 - a.n) \div a.d)

\* int(x + 0.99), the rounding the planner uses for counts
IntPlus099(a) == PyInt(RAdd(a, Rat(99, 100)))

\* sum of F(1) .. F(n)
RSumOver(F(_), n) ==
  LET f[i \in 0..n] == IF i = 0 THEN RInt(0) ELSE RAdd(f[i - 1], F(i))
  IN  f[n]

SumOver(F(_), n) ==
  LET f[i \in 0..n] == IF i = 0 THEN 0 ELSE f[i - 1] + F(i)
  IN  f[n]

\* F(e), with e evaluated once and F applied to its value
With(e, F(_)) == CHOOSE y \in {F(x) : x \in {e}} : TRUE

Min(a, b) == IF a < b THEN a ELSE b
Max(a, b) == IF a > b THEN a ELSE b

\* dict.get(k): None when the key is absent
Get(f, k) == IF k \in DOMAIN f THEN f[k] ELSE None

\* the indices of s whose element satisfies Test, in order
FilterIdx(s, Test(_)) ==
  LET f[i \in 0..Len(s)] ==
        IF i = 0 THEN <<>>
        ELSE IF Test(s[i]) THEN Append(f[i - 1], i) ELSE f[i - 1]
  IN  f[Len(s)]

\* next((x for x in s if Test(x)), None): index of the first match, 0 if none
FirstIdx(s, Test(_)) ==
  IF \E i \in 1..Len(s) : Test(s[i])
  THEN CHOOSE i \in 1..Len(s) : Test(s[i]) /\ \A j \in 1..(i - 1) : ~Test(s[j])
  ELSE 0

AnyIn(s, Test(_)) == \E i \in 1..Len(s) : Test(s[i])

\* str.upper() on the expertise strings the catalogs use
Upper(s) ==
  CASE s = "agriculture" -> "AGRICULTURE"
    [] s = "food_processing" -> "FOOD_PROCESSING"
    [] OTHER -> s

\* ----------------------------------------------------------- housing table
HousingWorkforce(type, cap) == [WorkforceTypeTicker |-> type, capacity |-> cap]

\* HOUSING_BUILDING, in the dict's order
HOUSING_BUILDING ==
  << [ticker |-> "HB1", caps |-> << HousingWorkforce("PIONEER", 100) >>],
     [ticker |-> "HB2", caps |-> << HousingWorkforce("SETTLER", 100) >>],
     [ticker |-> "HB3", caps |-> << HousingWorkforce("TECHNICIAN", 100) >>],
     [ticker |-> "HB4", caps |-> << HousingWorkforce("ENGINEER", 100) >>],
     [ticker |-> "HB5", caps |-> << HousingWorkforce("SCIENTIST", 100) >>],
     [ticker |-> "HBB", caps |-> << HousingWorkforce("PIONEER", 75),
                                    HousingWorkforce("SETTLER", 75) >>],
     [ticker |-> "HBC", caps |-> << HousingWorkforce("SETTLER", 75),
                                    HousingWorkforce("TECHNICIAN", 75) >>],
     [ticker |-> "HBM", caps |-> << HousingWorkforce("TECHNICIAN", 75),
                                    HousingWorkforce("ENGINEER", 75) >>],
     [ticker |-> "HBL", caps |-> << HousingWorkforce("ENGINEER", 75),
                                    HousingWorkforce("SCIENTIST", 75) >>] >>

INDUSTRIAL_CATEGORIES ==
  {"METALURGY", "REFINING", "CHEMICAL", "FOOD_PROCESSING", "PROCESSED_GOOD", "RECYCLING"}

\* ------------------------------------------------------------ data records
\* An Optional number is <<>> (None) or <<v>>; an Optional string is None or it.
Material(id, ticker) == [MaterialId |-> id, MaterialTicker |-> ticker]

RecipeIO(ticker, amount) == [MaterialTicker |-> ticker, Amount |-> amount]

Recipe(name, bld, dur, ins, outs) ==
  [StandardRecipeName |-> name, BuildingTicker |-> bld, DurationMs |-> dur,
   Inputs |-> ins, Outputs |-> outs]

Building(t, a, e) == [ticker |-> t, area |-> a, expertise |-> e]

BuildingCostItem(ticker, amount) == [MaterialTicker |-> ticker, Amount |-> amount]

BuildingWorkforce(type, cap) == [workforce_type_name |-> type, capacity_needed |-> cap]

MarketData(ticker, ask, bid, avg) ==
  [MaterialTicker |-> ticker, Ask |-> ask, Bid |-> bid, PriceAverage |-> avg]

Resource(mid, type, factor) == [MaterialId |-> mid, ResourceType |-> type, Factor |-> factor]

COGCProgram(type, start, end) ==
  [ProgramType |-> type, StartEpochMs |-> start, EndEpochMs |-> end]

PlanetData(id, fert, res, progs, status, lm, coc) ==
  [PlanetId |-> id, Fertility |-> fert, Resources |-> res, COGCPrograms |-> progs,
   COGCProgramStatus |-> status, HasLocalMarket |-> lm, HasChamberOfCommerce |-> coc]

BuildingInstance(sbid, ticker) == [SiteBuildingId |-> sbid, BuildingTicker |-> ticker]

Site(id, blds) == [SiteId |-> id, Buildings |-> blds]

ProductionOrder(id, bid, recipe, dur, halted, completion) ==
  [ProductionLineOrderId |-> id, BuildingId |-> bid, StandardRecipeName |-> recipe,
   DurationMs |-> dur, IsHalted |-> halted, CompletionEpochMs |-> completion]

SimulationState(mats, blds, recipes, costs, wfs, market, planets, hq, sites, orders) ==
  [static_materials |-> mats, static_buildings |-> blds, static_recipes |-> recipes,
   static_building_costs |-> costs, static_building_workforces |-> wfs,
   dynamic_market_data |-> market, all_planets_data |-> planets, hq |-> hq,
   sites |-> sites, production_orders |-> orders]

\* run_simulation's arguments
Args(ticker, rate, goal) ==
  [desired_material_ticker |-> ticker, target_production_rate |-> rate,
   optimization_goal |-> goal]

\* ------------------------------------------------- calculate_current_production
\* variant that counts halted orders too
OrderProduction_halted(st, order, material_ticker) ==
  IF order.CompletionEpochMs = <<>> THEN RInt(0)
  ELSE LET ri == FirstIdx(st.static_recipes,
                          LAMBDA r : r.StandardRecipeName = order.StandardRecipeName)
       IN  IF ri = 0 THEN RInt(0)
           ELSE LET outs == st.static_recipes[ri].Outputs
                    Add(i) ==
                      IF outs[i].MaterialTicker = material_ticker /\ order.DurationMs > 0
                      THEN RMul(RInt(outs[i].Amount), Rat(MS_IN_DAY, order.DurationMs))
                      ELSE RInt(0)
                IN  RSumOver(Add, Len(outs))

\* what one order adds to the rate of material_ticker
OrderProduction(st, order, material_ticker) ==
  IF order.IsHalted \/ order.CompletionEpochMs = <<>> THEN RInt(0)
  ELSE LET ri == FirstIdx(st.static_recipes,
                          LAMBDA r : r.StandardRecipeName = order.StandardRecipeName)
       IN  IF ri = 0 THEN RInt(0)
           ELSE LET outs == st.static_recipes[ri].Outputs
                    Add(i) ==
                      IF outs[i].MaterialTicker = material_ticker /\ order.DurationMs > 0
                      THEN RMul(RInt(outs[i].Amount), Rat(MS_IN_DAY, order.DurationMs))
                      ELSE RInt(0)
                IN  RSumOver(Add, Len(outs))

\* what one building instance adds: the orders whose BuildingId is its SiteBuildingId
BuildingInstanceProduction(st, bi, material_ticker) ==
  IF bi.BuildingTicker \notin DOMAIN st.static_buildings THEN RInt(0)
  ELSE LET orders == st.production_orders
           Add(i) ==
             IF orders[i].BuildingId = bi.SiteBuildingId
             THEN OrderProduction(st, orders[i], material_ticker)
             ELSE RInt(0)
       IN  RSumOver(Add, Len(orders))

calculate_current_production(st, material_ticker, target_site_id) ==
  LET SiteAdd(s) ==
        LET site == st.sites[s]
            Add(b) == BuildingInstanceProduction(st, site.Buildings[b], material_ticker)
        IN  IF target_site_id # None /\ site.SiteId # target_site_id THEN RInt(0)
            ELSE RSumOver(Add, Len(site.Buildings))
  IN  RSumOver(SiteAdd, Len(st.sites))

\* ----------------------------------------------- find_best_recipe_and_building
Produces(recipe, ticker) == AnyIn(recipe.Outputs, LAMBDA o : o.MaterialTicker = ticker)

\* index of the first recipe producing the material whose building is defined (0: none);
\* run_simulation passes no preferred recipe or building
find_best_recipe_and_building(st, desired_material_ticker) ==
  FirstIdx(st.static_recipes,
           LAMBDA r : Produces(r, desired_material_ticker)
                      /\ r.BuildingTicker # None
                      /\ r.BuildingTicker \in DOMAIN st.static_buildings)

\* ------------------------------------------------------------ categories
HasExpertise(st, b_ticker) ==
  /\ b_ticker \in DOMAIN st.static_buildings
  /\ st.static_buildings[b_ticker].expertise \notin {None, ""}

\* the building tickers of the recipes producing the material, first occurrence first
ProducingBuildingTickers(st, material_ticker) ==
  LET rs == st.static_recipes
      f[i \in 0..Len(rs)] ==
        IF i = 0 THEN <<>>
        ELSE IF /\ Produces(rs[i], material_ticker)
                /\ rs[i].BuildingTicker # None
                /\ ~AnyIn(f[i - 1], LAMBDA t : t = rs[i].BuildingTicker)
             THEN Append(f[i - 1], rs[i].BuildingTicker)
             ELSE f[i - 1]
  IN  f[Len(rs)]

Reverse(s) == [i \in 1..Len(s) |-> s[Len(s) + 1 - i]]

\* The code collects the tickers in a Python set and returns the first expertise
\* it meets when iterating it; the order of a set of strings is fixed by the
\* process's string hashing: hs = 0 iterates in insertion order, hs = 1 in reverse.
_get_material_production_category(st, material_ticker, hs) ==
  LET ts0 == ProducingBuildingTickers(st, material_ticker)
      ts == IF hs = 0 THEN ts0 ELSE Reverse(ts0)
      i == FirstIdx(ts, LAMBDA t : HasExpertise(st, t))
  IN  IF i = 0 THEN None ELSE Upper(st.static_buildings[ts[i]].expertise)

_get_building_expertise_category(st, building_ticker) ==
  IF HasExpertise(st, building_ticker)
  THEN Upper(st.static_buildings[building_ticker].expertise)
  ELSE None

\* ------------------------------------------------ find_best_expansion_planet
\* planet has an ACTIVE program ADVERTISING_<category> covering time t
HasActiveProgram(planet, category, t) ==
  /\ category \notin {None, ""}
  /\ planet.COGCProgramStatus = "ACTIVE"
  /\ \E i \in 1..Len(planet.COGCPrograms) :
       LET g == planet.COGCPrograms[i]
       IN  /\ g.ProgramType = "ADVERTISING_" \o category
           /\ g.StartEpochMs <= t
           /\ t <= g.EndEpochMs

\* the first output of the first recipe of the building that has outputs (None: none)
ExtractedMaterialTicker(st, building_ticker) ==
  LET i == FirstIdx(st.static_recipes,
                    LAMBDA r : r.BuildingTicker = building_ticker /\ r.Outputs # <<>>)
  IN  IF i = 0 THEN None ELSE st.static_recipes[i].Outputs[1].MaterialTicker

\* the MaterialId of the first material with that ticker (None: none)
MaterialIdOf(st, ticker) ==
  LET i == FirstIdx(st.static_materials, LAMBDA m : m.MaterialTicker = ticker)
  IN  IF i = 0 THEN None ELSE st.static_materials[i].MaterialId

\* variant of the type test of lines 288-291 that accepts every resource type
ResourceTypeMatches_any(building_ticker, resource) == TRUE

\* lines 288-291: the resource type the extraction building works on
ResourceTypeMatches(building_ticker, resource) ==
  \/ building_ticker = "RIG" /\ resource.ResourceType = "LIQUID"
  \/ building_ticker = "EXT" /\ resource.ResourceType = "MINERAL"
  \/ building_ticker = "COL" /\ resource.ResourceType = "GASEOUS"

HasSpecificResource(st, planet, building_ticker, extracted) ==
  LET mid == MaterialIdOf(st, extracted)
  IN  /\ mid \notin {None, ""}
      /\ AnyIn(planet.Resources,
               LAMBDA r : /\ r.MaterialId = mid
                          /\ r.Factor > 0
                          /\ ResourceTypeMatches(building_ticker, r))

HasAnyResource(planet) == AnyIn(planet.Resources, LAMBDA r : r.Factor > 0)

\* is_suitable of the selector's loop body, lines 260-329
SelectorSuitable(st, planet, desired_production_type, building_ticker, t) ==
  IF desired_production_type = "AGRICULTURE" THEN planet.Fertility > 0
  ELSE IF desired_production_type = "RESOURCE_EXTRACTION" THEN
    IF building_ticker \notin {None, ""} THEN
      LET extracted == ExtractedMaterialTicker(st, building_ticker)
      IN  IF extracted \notin {None, ""}
          THEN HasSpecificResource(st, planet, building_ticker, extracted)
          ELSE HasAnyResource(planet)
    ELSE HasAnyResource(planet)
  ELSE IF desired_production_type \in INDUSTRIAL_CATEGORIES THEN
    \/ HasActiveProgram(planet, desired_production_type, t)
    \/ planet.HasLocalMarket
    \/ planet.HasChamberOfCommerce
  ELSE TRUE

\* variant of lines 335-348 that draws from all candidates, preferred or not
find_best_expansion_planet_unranked(st, desired_production_type, building_ticker, t) ==
  FilterIdx(st.all_planets_data,
            LAMBDA p : SelectorSuitable(st, p, desired_production_type, building_ticker, t))

\* the list random.choice draws from: the COGC-preferred candidates when there are
\* any, else all candidates; <<>> when the selector returns None
find_best_expansion_planet(st, desired_production_type, building_ticker, t) ==
  LET ps == st.all_planets_data
      cand == FilterIdx(ps, LAMBDA p : SelectorSuitable(st, p, desired_production_type,
                                                        building_ticker, t))
      pref == FilterIdx(cand, LAMBDA i : HasActiveProgram(ps[i], desired_production_type, t))
  IN  IF pref # <<>> THEN [k \in 1..Len(pref) |-> cand[pref[k]]] ELSE cand

\* random.choice(seq) on the raw draw r
Choice(seq, r) == seq[(r % Len(seq)) + 1]

\* ------------------------------------------------------------ market prices
MarketIdx(st, ticker) ==
  FirstIdx(st.dynamic_market_data, LAMBDA md : md.MaterialTicker = ticker)

\* Ask, else Bid, else PriceAverage of a quote; <<>> when it carries none
QuotePrice(md) ==
  IF md.Ask # <<>> THEN md.Ask
  ELSE IF md.Bid # <<>> THEN md.Bid
  ELSE md.PriceAverage

\* buy_cost_per_unit, lines 384-399
BuyCost(st, ticker) ==
  LET i == MarketIdx(st, ticker)
  IN  IF i = 0 THEN Inf
      ELSE LET p == QuotePrice(st.dynamic_market_data[i])
           IN  IF p = <<>> THEN Inf ELSE RInt(p[1])

\* item_price of a building cost item: 0.0 without a usable quote
ItemPrice(st, ticker) ==
  LET i == MarketIdx(st, ticker)
  IN  IF i = 0 THEN 0
      ELSE LET p == QuotePrice(st.dynamic_market_data[i])
           IN  IF p = <<>> THEN 0 ELSE p[1]

\* the one-time construction cost of a building at market prices
ConstructionCost(st, building_ticker) ==
  LET items == IF building_ticker \in DOMAIN st.static_building_costs
               THEN st.static_building_costs[building_ticker] ELSE <<>>
      Add(i) == items[i].Amount * ItemPrice(st, items[i].MaterialTicker)
  IN  SumOver(Add, Len(items))

\* the depth guard's result, lines 372-379: only PriceAverage is consulted
DepthGuardResult(st, ticker) ==
  LET i == MarketIdx(st, ticker)
  IN  IF i # 0 /\ st.dynamic_market_data[i].PriceAverage # <<>>
      THEN [cost |-> RInt(st.dynamic_market_data[i].PriceAverage[1]), source |-> "BUY",
            subs |-> <<>>, planet |-> None]
      ELSE [cost |-> Inf, source |-> "UNKNOWN", subs |-> <<>>, planet |-> None]

\* ------------------------------------------------------------------- state
VARIABLES
  state,                         \* the SimulationState snapshot passed to run_simulation
  args,                          \* run_simulation's other arguments
  hashseed,                      \* the process's string-hash order (set iteration)
  now,                           \* time.time(), in program-window units
  pc,                            \* where run_simulation stands
  stack,                         \* frames of _calculate_material_cost_and_source
  ret,                           \* <<value>> returned by the frame just popped, or <<>>
  current_prod,
  production_gap,
  chain_buildings,               \* the templates returned for the target material
  source_type,
  num_chain_sets_to_build,
  chain_idx,                     \* position of the for loop over chain_buildings
  remaining_amount_to_place,
  planet_recommendations_map,    \* RecommendedPlanet records, in insertion order
  overall_total_estimated_cost,
  loop_idx,                      \* position of the housing / permit loop over the map
  permits_log,                   \* permits recommended per planet (the log line of 999)
  simulation_log,                \* the warnings of the run the claims speak of
  recommendation,                \* <<Recommendation>> once returned, else <<>>
  invoked,                       \* history: the components the run has entered
  depth_entered,                 \* history: the deepest recursion_depth entered
  last_return,                   \* history: <<[frame, result]>> of the last resolver return
  rng,                           \* the random module: [mode, tape, pos]
  first_run                      \* <<Recommendation>> of an earlier run on the same input

vars ==
  << state, args, hashseed, now, pc, stack, ret, current_prod, production_gap,
     chain_buildings, source_type, num_chain_sets_to_build, chain_idx,
     remaining_amount_to_place, planet_recommendations_map,
     overall_total_estimated_cost, loop_idx, permits_log, simulation_log,
     recommendation, invoked, depth_entered, last_return, rng, first_run >>

\* what no step of a run changes
inputVars == << state, args, hashseed, first_run >>

resolverVars == << stack, ret, depth_entered, last_return >>

allocVars ==
  << chain_buildings, source_type, num_chain_sets_to_build, chain_idx,
     remaining_amount_to_place, planet_recommendations_map,
     overall_total_estimated_cost, loop_idx, permits_log >>

\* the raw values one call of the random module can yield: 3! orders of 3 planets
RawDraws == 0..5

\* the synthetic site ids uuid4 can yield
SiteIds == {"NEW_SITE_A", "NEW_SITE_B"}

EmptyList == "[]"

RecommendedBuilding(ticker, amount, cost, planet_id, site_id) ==
  [building_ticker |-> ticker, amount_to_build |-> amount,
   estimated_cost_credits |-> cost, planet_id |-> planet_id, site_id |-> site_id]

RecommendedPlanet(planet_id, site_id) ==
  [planet_id |-> planet_id, site_id |-> site_id,
   total_estimated_cost_credits_on_planet |-> 0,
   total_estimated_workforce_needed_on_planet |-> <<>>,
   recommended_buildings_on_planet |-> <<>>]

Recommendation(a, cur, gap, planets, cost, log) ==
  [desired_material_ticker |-> a.desired_material_ticker,
   target_production_rate_units_per_day |-> a.target_production_rate,
   current_production_units_per_day |-> cur,
   production_gap_units_per_day |-> gap,
   recommended_planets |-> planets,
   total_estimated_cost_credits |-> cost,
   simulation_log |-> log]

\* ------------------------------------- _calculate_material_cost_and_source
Frame(material_ticker, recursion_depth, preferred_planet_id, is_final_material) ==
  [material_ticker |-> material_ticker, recursion_depth |-> recursion_depth,
   preferred_planet_id |-> preferred_planet_id,
   is_final_material |-> is_final_material,
   phase |-> "enter",
   buy_cost_per_unit |-> Inf,
   possible_recipes |-> <<>>, ri |-> 1,
   planet_for_this_production |-> None,
   ii |-> 1,
   total_input_cost |-> RInt(0),
   current_recipe_sub_buildings |-> <<>>,
   best_production_cost_per_unit |-> Inf,
   best_production_recipe |-> 0,
   best_production_building_ticker |-> None,
   best_sub_buildings |-> <<>>,
   best_production_planet_id |-> None,
   building_construction_cost |-> <<>>,
   skipped |-> <<>>,         \* history: the recipes left at line 466
   evaluated |-> <<>>]       \* history: the recipes costed at lines 519-525

Top == stack[Len(stack)]

SetTop(f) == [stack EXCEPT ![Len(stack)] = f]

Pop == SubSeq(stack, 1, Len(stack) - 1)

Result(cost, source, subs, planet) ==
  [cost |-> cost, source |-> source, subs |-> subs, planet |-> planet]

\* variant of the guard of line 372 that lets one more level through
DepthExceeded_late(recursion_depth) == recursion_depth > max_recursion_depth + 1

\* the guard of line 372
DepthExceeded(recursion_depth) == recursion_depth > max_recursion_depth

\* possible_recipes, line 408: indices into static_recipes
PossibleRecipes(st, material_ticker) ==
  FilterIdx(st.static_recipes, LAMBDA r : Produces(r, material_ticker))

\* The random module. In mode "free" a call yields any draw; in mode "record" the
\* draws are also kept on the tape; in mode "replay" the generator was seeded as in
\* the run that recorded the tape and yields the same draws in the same order.
DrawAllowed(r) ==
  (rng.mode = "replay" /\ rng.pos <= Len(rng.tape)) => r = rng.tape[rng.pos]

Drawn(r) ==
  CASE rng.mode = "record" -> [rng EXCEPT !.tape = Append(@, r)]
    [] rng.mode = "replay" -> [rng EXCEPT !.pos = @ + 1]
    [] OTHER -> rng

\* what a resolver return leaves in the history
Returned(f, result) == << [frame |-> f, result |-> result] >>

\* lines 372-411: the depth guard, the BUY option, the recipes to evaluate
ResolverEnter ==
  /\ pc = "resolve" /\ stack # <<>> /\ Top.phase = "enter"
  /\ depth_entered' = Max(depth_entered, Top.recursion_depth)
  /\ invoked' = invoked \cup {"CostResolver"}
  /\ IF DepthExceeded(Top.recursion_depth)
     THEN /\ ret' = << DepthGuardResult(state, Top.material_ticker) >>
          /\ last_return' = Returned(Top, DepthGuardResult(state, Top.material_ticker))
          /\ stack' = Pop
     ELSE /\ ret' = <<>>
          /\ UNCHANGED last_return
          /\ stack' = SetTop([Top EXCEPT
                 !.phase = "recipes",
                 !.buy_cost_per_unit = BuyCost(state, Top.material_ticker),
                 !.possible_recipes = PossibleRecipes(state, Top.material_ticker)])
  /\ UNCHANGED << inputVars, rng, now, pc, current_prod, production_gap, allocVars,
                  simulation_log, recommendation >>

\* variant of line 448 that keeps the list of the recipe before
NewSubBuildings_kept(previous) == previous

\* current_recipe_sub_buildings at line 448: a new empty list for each recipe
NewSubBuildings(previous) == <<>>

\* The frame moves to the next recipe of its for loop.
NextRecipe(f) ==
  [f EXCEPT !.phase = "recipes", !.ri = f.ri + 1]

\* lines 413-449: the planet of this production step
ResolverRecipe ==
  /\ pc = "resolve" /\ stack # <<>> /\ Top.phase = "recipes"
  /\ Top.ri <= Len(Top.possible_recipes)
  /\ LET recipe == state.static_recipes[Top.possible_recipes[Top.ri]]
         Begin(planet) == [Top EXCEPT !.phase = "inputs",
                                      !.planet_for_this_production = planet,
                                      !.ii = 1,
                                      !.total_input_cost = RInt(0),
                                      !.current_recipe_sub_buildings =
                                         NewSubBuildings(@)]
     IN  IF Top.preferred_planet_id # None
         THEN /\ stack' = SetTop(Begin(Top.preferred_planet_id))
              /\ UNCHANGED << invoked, rng >>
         ELSE IF state.all_planets_data = <<>>
         THEN /\ stack' = SetTop(NextRecipe(Top))
              /\ UNCHANGED << invoked, rng >>
         ELSE LET cat == _get_material_production_category(
                            state, Top.material_ticker, hashseed)
                  from == find_best_expansion_planet(
                            state, cat, recipe.BuildingTicker, now)
              IN  /\ invoked' = invoked \cup {"PlanetSelector"}
                  /\ IF from = <<>>
                     THEN /\ stack' = SetTop(NextRecipe(Top))
                          /\ UNCHANGED rng
                     ELSE \E r \in RawDraws :
                            /\ DrawAllowed(r)
                            /\ rng' = Drawn(r)
                            /\ stack' = SetTop(Begin(
                                 state.all_planets_data[Choice(from, r)].PlanetId))
  /\ UNCHANGED << inputVars, now, pc, ret, depth_entered, last_return, current_prod,
                  production_gap, allocVars, simulation_log, recommendation >>

\* lines 451-462: the recursive call for the next input
ResolverCall ==
  /\ pc = "resolve" /\ stack # <<>> /\ Top.phase = "inputs"
  /\ LET recipe == state.static_recipes[Top.possible_recipes[Top.ri]]
     IN  /\ Top.ii <= Len(recipe.Inputs)
         /\ stack' = Append(SetTop([Top EXCEPT !.phase = "await"]),
                            Frame(recipe.Inputs[Top.ii].MaterialTicker,
                                  Top.recursion_depth + 1,
                                  Top.planet_for_this_production,
                                  FALSE))
  /\ UNCHANGED << inputVars, rng, now, pc, ret, depth_entered, last_return, current_prod,
                  production_gap, allocVars, simulation_log, recommendation, invoked >>

\* lines 469-471: a sub-building without a planet takes the input's or this step's
WithPlanet(sub, input_production_planet_id, planet_for_this_production) ==
  IF sub.planet_id = None
  THEN [sub EXCEPT !.planet_id =
          IF input_production_planet_id \notin {None, EmptyList, ""}
          THEN input_production_planet_id ELSE planet_for_this_production]
  ELSE sub

\* lines 463-475: the call's result is added to the recipe, or skips it
ResolverReturn ==
  /\ pc = "resolve" /\ stack # <<>> /\ Top.phase = "await" /\ ret # <<>>
  /\ LET r == ret[1]
         recipe == state.static_recipes[Top.possible_recipes[Top.ri]]
         input_item == recipe.Inputs[Top.ii]
     IN  stack' = SetTop(
           IF IsInf(r.cost)
           THEN NextRecipe([Top EXCEPT
                  !.skipped = Append(@, Top.possible_recipes[Top.ri])])
           ELSE [Top EXCEPT
                   !.phase = "inputs",
                   !.ii = Top.ii + 1,
                   !.total_input_cost =
                      RAdd(Top.total_input_cost, RMul(RInt(input_item.Amount), r.cost)),
                   !.current_recipe_sub_buildings =
                      Top.current_recipe_sub_buildings \o
                      [k \in 1..Len(r.subs) |->
                         WithPlanet(r.subs[k], r.planet, Top.planet_for_this_production)]])
  /\ ret' = <<>>
  /\ UNCHANGED << inputVars, rng, now, pc, depth_entered, last_return, current_prod,
                  production_gap, allocVars, simulation_log, recommendation, invoked >>

\* lines 498-516: recipe.DurationMs, times 0.90 under an active matching program
EffectiveDuration(st, recipe, material_ticker, planet_id, hs, t) ==
  LET pi == FirstIdx(st.all_planets_data, LAMBDA p : p.PlanetId = planet_id)
      cat == _get_material_production_category(st, material_ticker, hs)
  IN  IF /\ planet_id \notin {None, ""}
         /\ pi # 0
         /\ HasActiveProgram(st.all_planets_data[pi], cat, t)
      THEN Rat(recipe.DurationMs * 9, 10)
      ELSE RInt(recipe.DurationMs)

\* output_amount, line 519
OutputAmount(recipe, material_ticker) ==
  LET i == FirstIdx(recipe.Outputs, LAMBDA o : o.MaterialTicker = material_ticker)
  IN  IF i = 0 THEN 0 ELSE recipe.Outputs[i].Amount

\* cost_per_unit_produced, lines 521-525
CostPerUnitProduced(total_input_cost, building_construction_cost, output_amount, eff) ==
  RAdd(RDiv(total_input_cost, RInt(output_amount)),
       RDiv(RInt(building_construction_cost),
            RMul(RMul(RInt(output_amount), RDiv(RInt(MS_IN_DAY), eff)),
                 RInt(DAYS_AMORTIZED))))

\* variant of the comparison of line 529 with <= for <
IsCheaper_orEqual(cost_per_unit_produced, best_production_cost_per_unit) ==
  RLe(cost_per_unit_produced, best_production_cost_per_unit)

\* the comparison of line 529
IsCheaper(cost_per_unit_produced, best_production_cost_per_unit) ==
  RLt(cost_per_unit_produced, best_production_cost_per_unit)

\* lines 477-536: the recipe's cost per unit, kept when it is the cheapest so far
ResolverFinishRecipe ==
  /\ pc = "resolve" /\ stack # <<>> /\ Top.phase = "inputs"
  /\ LET recipe == state.static_recipes[Top.possible_recipes[Top.ri]]
         bcc == ConstructionCost(state, recipe.BuildingTicker)
         eff == EffectiveDuration(state, recipe, Top.material_ticker,
                                  Top.planet_for_this_production, hashseed, now)
         output_amount == OutputAmount(recipe, Top.material_ticker)
         cost == CostPerUnitProduced(Top.total_input_cost, bcc, output_amount, eff)
         costed == [Top EXCEPT
                      !.building_construction_cost = << bcc >>,
                      !.evaluated =
                         IF output_amount > 0 /\ RPos(eff)
                         THEN Append(@, [recipe |-> Top.possible_recipes[Top.ri],
                                         total_input_cost |-> Top.total_input_cost,
                                         effective_duration_ms |-> eff,
                                         cost_per_unit_produced |-> cost])
                         ELSE @]
     IN  /\ Top.ii > Len(recipe.Inputs)
         /\ stack' = SetTop(
              IF recipe.BuildingTicker \notin DOMAIN state.static_buildings
              THEN NextRecipe(Top)
              ELSE IF output_amount > 0 /\ RPos(eff)
                      /\ IsCheaper(cost, Top.best_production_cost_per_unit)
              THEN NextRecipe([costed EXCEPT
                     !.best_production_cost_per_unit = cost,
                     !.best_production_recipe = Top.possible_recipes[Top.ri],
                     !.best_production_building_ticker = recipe.BuildingTicker,
                     !.best_sub_buildings = Top.current_recipe_sub_buildings,
                     !.best_production_planet_id = Top.planet_for_this_production])
              ELSE NextRecipe(costed))
  /\ UNCHANGED << inputVars, rng, now, pc, ret, depth_entered, last_return, current_prod,
                  production_gap, allocVars, simulation_log, recommendation, invoked >>

Raise == Result(Inf, "RAISE", <<>>, None)

\* lines 543-556 and 567-580: PRODUCE, with the chosen recipe's building appended
ProduceResult(st, f) ==
  IF /\ f.best_production_building_ticker \notin {None, ""}
     /\ f.best_production_building_ticker \in DOMAIN st.static_buildings
  THEN IF f.building_construction_cost = <<>> THEN Raise
       ELSE Result(f.best_production_cost_per_unit, "PRODUCE",
                   Append(f.best_sub_buildings,
                          RecommendedBuilding(f.best_production_building_ticker, 1,
                                              f.building_construction_cost[1],
                                              f.best_production_planet_id, None)),
                   f.best_production_planet_id)
  ELSE Result(f.best_production_cost_per_unit, "PRODUCE", f.best_sub_buildings,
              f.best_production_planet_id)

\* variant of the comparison of line 561 with < for <=
BuyPreferred_strict(buy_cost_per_unit, best_production_cost_per_unit) ==
  RLt(buy_cost_per_unit, best_production_cost_per_unit)

\* variant of the comparison of line 561 that buys whatever carries a quote
BuyPreferred_quoted(buy_cost_per_unit, best_production_cost_per_unit) ==
  \/ ~IsInf(buy_cost_per_unit)
  \/ RLe(buy_cost_per_unit, best_production_cost_per_unit)

\* the comparison of line 561
BuyPreferred(buy_cost_per_unit, best_production_cost_per_unit) ==
  RLe(buy_cost_per_unit, best_production_cost_per_unit)

\* variant of the decision that compares BUY and PRODUCE for the final material too
Decision_cheapest(st, f) ==
  IF BuyPreferred(f.buy_cost_per_unit, f.best_production_cost_per_unit)
  THEN Result(f.buy_cost_per_unit, "BUY", <<>>, EmptyList)
  ELSE IF f.best_production_recipe = 0
       THEN Result(Inf, "UNKNOWN", <<>>, None)
       ELSE ProduceResult(st, f)

\* lines 538-580: the decision of a frame whose recipes are all evaluated
Decision(st, f) ==
  IF f.is_final_material
  THEN IF f.best_production_recipe # 0
       THEN ProduceResult(st, f)
       ELSE Result(Inf, "UNKNOWN", <<>>, None)
  ELSE IF BuyPreferred(f.buy_cost_per_unit, f.best_production_cost_per_unit)
       THEN Result(f.buy_cost_per_unit, "BUY", <<>>, EmptyList)
       ELSE IF f.best_production_recipe = 0
            THEN Raise                    \* best_production_recipe.RecipeName of None
            ELSE ProduceResult(st, f)

ResolverDecide ==
  /\ pc = "resolve" /\ stack # <<>> /\ Top.phase = "recipes"
  /\ Top.ri > Len(Top.possible_recipes)
  /\ LET d == Decision(state, Top)
     IN  IF d.source = "RAISE"
         THEN /\ pc' = "error"
              /\ UNCHANGED << stack, ret, last_return >>
         ELSE /\ ret' = << d >>
              /\ last_return' = Returned(Top, d)
              /\ stack' = Pop
              /\ UNCHANGED pc
  /\ UNCHANGED << inputVars, rng, now, depth_entered, current_prod,
                  production_gap, allocVars, simulation_log, recommendation, invoked >>

\* ------------------------------------------------------------ run_simulation
\* lines 593-613 and 844-854: the gap; no gap returns the empty recommendation
\* variant of the test of line 613 with >= for >
HasGap_nonnegative(gap) == RLe(RInt(0), gap)

HasGap(gap) == RPos(gap)

StartSimulation ==
  /\ pc = "start"
  /\ LET cur == calculate_current_production(state, args.desired_material_ticker, None)
         gap == RSub(RInt(args.target_production_rate), cur)
     IN  /\ current_prod' = cur
         /\ production_gap' = gap
         /\ invoked' = invoked \cup {"ProductionRateCalculator"}
         /\ IF HasGap(gap)
            THEN /\ pc' = "resolve"
                 /\ stack' = << Frame(args.desired_material_ticker, 0, state.hq, TRUE) >>
                 /\ UNCHANGED recommendation
            ELSE /\ pc' = "done"
                 /\ recommendation' =
                      << Recommendation(args, cur, gap, <<>>, RInt(0), simulation_log) >>
                 /\ UNCHANGED stack
  /\ UNCHANGED << inputVars, rng, now, ret, depth_entered, last_return, allocVars,
                  simulation_log >>

\* production_rate_per_building, lines 630-645: from the first recipe in catalog
\* order that produces the material and has a defined building
ProductionRatePerBuilding(st, desired_material_ticker) ==
  LET i == find_best_recipe_and_building(st, desired_material_ticker)
  IN  IF i = 0 THEN RInt(0)
      ELSE LET recipe == st.static_recipes[i]
               o == FirstIdx(recipe.Outputs,
                             LAMBDA x : x.MaterialTicker = desired_material_ticker)
           IN  IF o # 0 /\ recipe.DurationMs > 0
               THEN RMul(RInt(recipe.Outputs[o].Amount), Rat(MS_IN_DAY, recipe.DurationMs))
               ELSE RInt(0)

\* num_chain_sets_to_build, lines 649-650
NumChainSets(gap, production_rate_per_building) ==
  Max(1, IntPlus099(RDiv(gap, production_rate_per_building)))

\* lines 619-660 and 833-842: the branch on the resolver's source
AfterResolve ==
  /\ pc = "resolve" /\ stack = <<>> /\ ret # <<>>
  /\ LET r == ret[1]
         rate == ProductionRatePerBuilding(state, args.desired_material_ticker)
     IN  /\ source_type' = r.source
         /\ chain_buildings' = r.subs
         /\ IF r.source = "PRODUCE" /\ RPos(rate)
            THEN /\ num_chain_sets_to_build' = NumChainSets(production_gap, rate)
                 /\ pc' = "alloc_for"
                 /\ chain_idx' = 1
                 /\ invoked' = invoked \cup {"AllocationEngine"}
                 /\ UNCHANGED << overall_total_estimated_cost, loop_idx >>
            ELSE /\ overall_total_estimated_cost' =
                      IF r.source = "BUY"
                      THEN RAdd(overall_total_estimated_cost, RMul(r.cost, production_gap))
                      ELSE overall_total_estimated_cost
                 /\ pc' = "housing"
                 /\ loop_idx' = 1
                 /\ UNCHANGED << num_chain_sets_to_build, chain_idx, invoked >>
  /\ ret' = <<>>
  /\ UNCHANGED << inputVars, rng, now, stack, depth_entered, last_return, current_prod,
                  production_gap,
                  remaining_amount_to_place, planet_recommendations_map, permits_log,
                  simulation_log, recommendation >>

\* ---------------------------------------------------------- allocation loop
\* max_total_area_on_planet, lines 688 and 778
MaxTotalAreaOnPlanet ==
  BASE_MAX_AREA_FIRST_PERMIT + MAX_ADDITIONAL_PERMITS * ADDITIONAL_AREA_PER_PERMIT
    - SITE_BASE_AREA_COST

\* area * amount of a recommended building; nothing without a definition or an area
BuildingAreaUsed(st, b) ==
  IF /\ b.building_ticker \in DOMAIN st.static_buildings
     /\ st.static_buildings[b.building_ticker].area # <<>>
  THEN st.static_buildings[b.building_ticker].area[1] * b.amount_to_build
  ELSE 0

\* current_used_area_on_planet, lines 683-687 and 772-776
CurrentUsedArea(st, planet_rec) ==
  LET bs == planet_rec.recommended_buildings_on_planet
      Add(i) == BuildingAreaUsed(st, bs[i])
  IN  SumOver(Add, Len(bs))

\* units_that_fit_in_remaining_area, lines 689-691 and 780-782
UnitsThatFit(st, planet_rec, building_area_per_unit) ==
  IF building_area_per_unit > 0
  THEN Floor(Rat(MaxTotalAreaOnPlanet - CurrentUsedArea(st, planet_rec),
                 building_area_per_unit))
  ELSE 0

\* building_area_per_unit, lines 655-658
BuildingAreaPerUnit(st, building_ticker) ==
  IF st.static_buildings[building_ticker].area = <<>> THEN 0
  ELSE st.static_buildings[building_ticker].area[1]

\* has_matching_expertise, lines 675-680
HasMatchingExpertise(st, planet_rec, category) ==
  AnyIn(planet_rec.recommended_buildings_on_planet,
        LAMBDA b : _get_building_expertise_category(st, b.building_ticker) = category)

\* step 1, lines 672-697: index in the map of the first recommended planet that has
\* a building of the same expertise and room for a unit (0: none)
ExistingPlanetFor(st, map, category, building_area_per_unit) ==
  IF category \in {None, ""} THEN 0
  ELSE FirstIdx(map, LAMBDA pr : /\ HasMatchingExpertise(st, pr, category)
                                 /\ UnitsThatFit(st, pr, building_area_per_unit) > 0)

\* is_planet_suitable_for_building, lines 707-755
AllocSuitable(st, planet, category, building_ticker, t) ==
  IF category = "AGRICULTURE" /\ planet.Fertility > 0 THEN TRUE
  ELSE IF category = "RESOURCE_EXTRACTION" THEN
    LET extracted == ExtractedMaterialTicker(st, building_ticker)
    IN  /\ extracted \notin {None, ""}
        /\ HasSpecificResource(st, planet, building_ticker, extracted)
  ELSE IF category \in INDUSTRIAL_CATEGORIES THEN
    \/ HasActiveProgram(planet, category, t)
    \/ planet.HasLocalMarket
    \/ planet.HasChamberOfCommerce
  ELSE TRUE

\* random.shuffle on the raw draw r: the r-th order of seq
Shuffled(seq, r) ==
  LET n == Len(seq)
      Without(s, k) == [j \in 1..(Len(s) - 1) |-> IF j < k THEN s[j] ELSE s[j + 1]]
      f[i \in 0..n] ==
        \* after i picks: [out: the order so far, rest: what is left, q: the draw left]
        IF i = 0 THEN [out |-> <<>>, rest |-> seq, q |-> r]
        ELSE With(f[i - 1], LAMBDA p :
               LET k == (p.q % Len(p.rest)) + 1
               IN  [out |-> Append(p.out, p.rest[k]),
                    rest |-> Without(p.rest, k),
                    q |-> p.q \div Len(p.rest)])
  IN  f[n].out

\* variant of lines 702-703 that shuffles the snapshot's own list
PlanetsAfterShuffle_inplace(planets, order) ==
  [i \in 1..Len(order) |-> planets[order[i]]]

\* initial_state.all_planets_data after lines 702-703: list() copied it, and the
\* copy is what random.shuffle reorders
PlanetsAfterShuffle(planets, order) == planets

MapIdx(map, planet_id) == FirstIdx(map, LAMBDA pr : pr.planet_id = planet_id)

\* step 2, lines 700-792: the scan of the shuffled planets. Every suitable planet
\* met gets its RecommendedPlanet entry; the scan stops at the first with room.
\* order: planet indices; ids: the site id uuid4 yields for each planet index.
\* Result: [map, chosen (index in map, 0: none)].
NewPlanetScan(st, map, order, ids, category, building_ticker, building_area_per_unit, t) ==
  LET f[i \in 0..Len(order)] ==
        IF i = 0 THEN [map |-> map, chosen |-> 0]
        ELSE With(f[i - 1], LAMBDA p :
               LET planet == st.all_planets_data[order[i]]
                   known == MapIdx(p.map, planet.PlanetId)
                   map1 == IF known = 0
                           THEN Append(p.map,
                                       RecommendedPlanet(planet.PlanetId, ids[order[i]]))
                           ELSE p.map
                   k == IF known = 0 THEN Len(map1) ELSE known
               IN  IF p.chosen # 0 THEN p
                   ELSE IF ~AllocSuitable(st, planet, category, building_ticker, t) THEN p
                   ELSE [map |-> map1,
                         chosen |-> IF UnitsThatFit(st, map1[k], building_area_per_unit) > 0
                                    THEN k ELSE 0])
  IN  f[Len(order)]

\* dict[type] = dict.get(type, 0.0) + amount, keeping insertion order
AddWorkforce(wf, type, amount) ==
  LET i == FirstIdx(wf, LAMBDA e : e.type = type)
  IN  IF i = 0 THEN Append(wf, [type |-> type, amount |-> amount])
      ELSE [wf EXCEPT ![i].amount = @ + amount]

\* lines 817-828: the workforce demand of the placed units
WithWorkforceDemand(st, wf, building_ticker, units) ==
  LET reqs == IF building_ticker \in DOMAIN st.static_building_workforces
              THEN st.static_building_workforces[building_ticker] ELSE <<>>
      f[i \in 0..Len(reqs)] ==
        IF i = 0 THEN wf
        ELSE With(f[i - 1], LAMBDA w :
               AddWorkforce(w, reqs[i].workforce_type_name,
                            reqs[i].capacity_needed * units))
  IN  f[Len(reqs)]

\* variant of line 795 that never places a unit
UnitsToPlace_none(remaining, units_that_fit) == 0

\* variant of line 795 that places all remaining units at once
UnitsToPlace_all(remaining, units_that_fit) == remaining

\* units_to_place_on_this_planet, line 795
UnitsToPlace(remaining, units_that_fit) == Min(remaining, units_that_fit)

\* variant of lines 803-828 that leaves the planet's cost total alone (no line 814)
PlaceOnPlanet_uncosted(st, planet_rec, template, units) ==
  [planet_rec EXCEPT
     !.recommended_buildings_on_planet =
        Append(@, RecommendedBuilding(template.building_ticker, units,
                                      template.estimated_cost_credits * units,
                                      planet_rec.planet_id, planet_rec.site_id)),
     !.total_estimated_workforce_needed_on_planet =
        WithWorkforceDemand(st, @, template.building_ticker, units)]

\* lines 803-828: the planet's entry after units of the template are placed on it
PlaceOnPlanet(st, planet_rec, template, units) ==
  [planet_rec EXCEPT
     !.recommended_buildings_on_planet =
        Append(@, RecommendedBuilding(template.building_ticker, units,
                                      template.estimated_cost_credits * units,
                                      planet_rec.planet_id, planet_rec.site_id)),
     !.total_estimated_cost_credits_on_planet =
        @ + template.estimated_cost_credits * units,
     !.total_estimated_workforce_needed_on_planet =
        WithWorkforceDemand(st, @, template.building_ticker, units)]

\* lines 654-660: the next template of the for loop, or the end of the loop
AllocFor ==
  /\ pc = "alloc_for"
  /\ IF chain_idx > Len(chain_buildings)
     THEN /\ pc' = "housing"
          /\ loop_idx' = 1
          /\ UNCHANGED << remaining_amount_to_place, chain_idx >>
     ELSE LET template == chain_buildings[chain_idx]
              amount == template.amount_to_build * num_chain_sets_to_build
          IN  IF template.building_ticker \notin DOMAIN state.static_buildings
              THEN /\ pc' = "error"      \* .area of None, line 655
                   /\ UNCHANGED << remaining_amount_to_place, chain_idx, loop_idx >>
              ELSE /\ remaining_amount_to_place' = amount
                   /\ pc' = IF amount > 0 THEN "alloc_while" ELSE "alloc_for"
                   /\ chain_idx' = IF amount > 0 THEN chain_idx ELSE chain_idx + 1
                   /\ UNCHANGED loop_idx
  /\ UNCHANGED << inputVars, rng, now, resolverVars, current_prod, production_gap,
                  chain_buildings, source_type, num_chain_sets_to_build,
                  planet_recommendations_map, overall_total_estimated_cost,
                  permits_log, simulation_log, recommendation, invoked >>

\* lines 662-831: one iteration of the while loop for the current template
AllocWhile ==
  /\ pc = "alloc_while"
  /\ \E r \in RawDraws, ids \in [1..Len(state.all_planets_data) -> SiteIds] :
       \E template \in {chain_buildings[chain_idx]} :
       \E area \in {BuildingAreaPerUnit(state, template.building_ticker)},
          category \in {_get_building_expertise_category(state, template.building_ticker)} :
       \E existing \in {ExistingPlanetFor(state, planet_recommendations_map, category, area)} :
       \E order \in {Shuffled([i \in 1..Len(state.all_planets_data) |-> i], r)} :
       \E scan \in {IF existing # 0
                    THEN [map |-> planet_recommendations_map, chosen |-> existing]
                    ELSE NewPlanetScan(state, planet_recommendations_map, order,
                                       ids, category, template.building_ticker, area, now)} :
       \E fit \in {IF scan.chosen = 0 THEN 0
                   ELSE UnitsThatFit(state, scan.map[scan.chosen], area)} :
       \E units \in {UnitsToPlace(remaining_amount_to_place, fit)} :
           /\ IF existing # 0 THEN UNCHANGED << rng, state >>
              ELSE /\ DrawAllowed(r) /\ rng' = Drawn(r)
                   /\ state' = [state EXCEPT !.all_planets_data =
                                  PlanetsAfterShuffle(@, order)]
           /\ IF scan.chosen = 0
              THEN \* lines 790-792: no planet, the remaining units are abandoned
                   /\ planet_recommendations_map' = scan.map
                   /\ simulation_log' = Append(simulation_log,
                         [event |-> "no_planet", building |-> template.building_ticker,
                          units |-> remaining_amount_to_place])
                   /\ chain_idx' = chain_idx + 1
                   /\ pc' = "alloc_for"
                   /\ UNCHANGED << remaining_amount_to_place, overall_total_estimated_cost >>
              ELSE IF units = 0
              THEN \* lines 797-801: continue
                   /\ planet_recommendations_map' = scan.map
                   /\ simulation_log' = Append(simulation_log,
                         [event |-> "no_space", building |-> template.building_ticker,
                          units |-> remaining_amount_to_place])
                   /\ UNCHANGED << chain_idx, pc, remaining_amount_to_place,
                                   overall_total_estimated_cost >>
              ELSE /\ planet_recommendations_map' =
                        [scan.map EXCEPT ![scan.chosen] =
                           PlaceOnPlanet(state, @, template, units)]
                   /\ overall_total_estimated_cost' =
                        RAdd(overall_total_estimated_cost,
                             RInt(template.estimated_cost_credits * units))
                   /\ remaining_amount_to_place' = remaining_amount_to_place - units
                   /\ chain_idx' = IF remaining_amount_to_place = units
                                   THEN chain_idx + 1 ELSE chain_idx
                   /\ pc' = IF remaining_amount_to_place = units
                            THEN "alloc_for" ELSE "alloc_while"
                   /\ UNCHANGED simulation_log
  /\ UNCHANGED << args, hashseed, first_run, now, resolverVars, current_prod,
                  production_gap, chain_buildings, source_type, num_chain_sets_to_build,
                  loop_idx, permits_log, recommendation, invoked >>

\* ------------------------------------------------------------- housing loop
\* current_hb_capacity_for_type, lines 878-881
HousingCapacityFor(hb, wf_type) ==
  LET f[i \in 0..Len(hb.caps)] ==
        IF i = 0 THEN 0
        ELSE IF hb.caps[i].WorkforceTypeTicker = wf_type /\ hb.caps[i].capacity > 0
             THEN f[i - 1] + hb.caps[i].capacity
             ELSE f[i - 1]
  IN  f[Len(hb.caps)]

\* lines 883-904: the candidates so far, with hb appended when it is defined and
\* houses the workforce type
AppendCandidate(st, cands, hb, capacity) ==
  IF hb.ticker \in DOMAIN st.static_buildings /\ capacity > 0
  THEN Append(cands,
         [ticker |-> hb.ticker,
          cost |-> ConstructionCost(st, hb.ticker),
          area |-> IF st.static_buildings[hb.ticker].area = <<>> THEN 0
                   ELSE st.static_buildings[hb.ticker].area[1],
          capacity |-> capacity])
  ELSE cands

\* suitable_housing_candidates, lines 870-904, in HOUSING_BUILDING order
HousingCandidates(st, wf_type) ==
  LET f[i \in 0..Len(HOUSING_BUILDING)] ==
        IF i = 0 THEN <<>>
        ELSE AppendCandidate(st, f[i - 1], HOUSING_BUILDING[i],
                             HousingCapacityFor(HOUSING_BUILDING[i], wf_type))
  IN  f[Len(HOUSING_BUILDING)]

\* variant of lines 907-912 that sorts by cost under every goal
KeyLess_costOnly(a, b, optimization_goal) == a.cost * b.capacity < b.cost * a.capacity

\* the sort key of lines 907-912: cost per capacity unit, or area per capacity unit
\* under "less area"; a.key/a.capacity < b.key/b.capacity, capacities positive
KeyLess(a, b, optimization_goal) ==
  IF optimization_goal = "less area"
  THEN a.area * b.capacity < b.area * a.capacity
  ELSE a.cost * b.capacity < b.cost * a.capacity

\* suitable_housing_candidates[0] after the stable sort: the first candidate that
\* no other candidate's key is below
SelectedHousing(cands, optimization_goal) ==
  cands[CHOOSE i \in 1..Len(cands) :
          /\ \A j \in 1..Len(cands) : ~KeyLess(cands[j], cands[i], optimization_goal)
          /\ \A k \in 1..(i - 1) :
               \E j \in 1..Len(cands) : KeyLess(cands[j], cands[k], optimization_goal)]

\* variant of lines 921-922 that truncates the ratio
NumHousingBuildings_truncated(amount_needed, capacity_per_housing_unit) ==
  Max(1, PyInt(Rat(amount_needed, capacity_per_housing_unit)))

\* num_housing_buildings_to_build, lines 921-922
NumHousingBuildings(amount_needed, capacity_per_housing_unit) ==
  Max(1, IntPlus099(Rat(amount_needed, capacity_per_housing_unit)))

\* lines 924-955: num units of the housing hb recommended on the planet;
\* the RecommendedBuilding carries the cost of one unit (line 952)
AddHousing(planet_rec, hb, num) ==
  [rec |-> [planet_rec EXCEPT
              !.total_estimated_cost_credits_on_planet = @ + hb.cost * num,
              !.recommended_buildings_on_planet =
                 Append(@, RecommendedBuilding(hb.ticker, num, hb.cost,
                                               planet_rec.planet_id,
                                               planet_rec.site_id))],
   added |-> hb.cost * num]

\* lines 914-922: the selected housing and how many of it the amount needs
AddSelectedHousing(planet_rec, amount, hb) ==
  AddHousing(planet_rec, hb, NumHousingBuildings(amount, hb.capacity))

\* lines 862-867 and 906-913: nothing for a non-positive amount or without candidates
PlanHousingWith(planet_rec, wf, cands, optimization_goal) ==
  IF wf.amount <= 0 \/ cands = <<>> THEN [rec |-> planet_rec, added |-> 0]
  ELSE With(SelectedHousing(cands, optimization_goal),
            LAMBDA hb : AddSelectedHousing(planet_rec, wf.amount, hb))

\* lines 861-958 for one workforce type of a planet: [rec, added]
PlanHousingForType(st, planet_rec, wf, optimization_goal) ==
  With(HousingCandidates(st, wf.type),
       LAMBDA cands : PlanHousingWith(planet_rec, wf, cands, optimization_goal))

\* line 956: the housing cost joins what the planet's earlier types added
Accumulate(added, step) == [rec |-> step.rec, added |-> added + step.added]

\* one workforce type after the earlier ones
PlanHousingNext(st, prev, wf, optimization_goal) ==
  With(PlanHousingForType(st, prev.rec, wf, optimization_goal),
       LAMBDA step : Accumulate(prev.added, step))

\* lines 858-958 for one planet: every workforce type in the dict's order
PlanHousing(st, planet_rec, optimization_goal) ==
  LET wfs == planet_rec.total_estimated_workforce_needed_on_planet
      f[i \in 0..Len(wfs)] ==
        IF i = 0 THEN [rec |-> planet_rec, added |-> 0]
        ELSE With(f[i - 1],
                  LAMBDA prev : PlanHousingNext(st, prev, wfs[i], optimization_goal))
  IN  f[Len(wfs)]

\* lines 856-958: the housing of the next planet of the map
HousingFor(map, total, i, h) ==
  /\ planet_recommendations_map' = [map EXCEPT ![i] = h.rec]
  /\ overall_total_estimated_cost' = RAdd(total, RInt(h.added))

HousingStep ==
  /\ pc = "housing"
  /\ IF loop_idx > Len(planet_recommendations_map)
     THEN /\ pc' = "permits"
          /\ loop_idx' = 1
          /\ UNCHANGED << planet_recommendations_map, overall_total_estimated_cost, invoked >>
     ELSE /\ \E h \in {PlanHousing(state, planet_recommendations_map[loop_idx],
                                    args.optimization_goal)} :
               HousingFor(planet_recommendations_map, overall_total_estimated_cost,
                          loop_idx, h)
          /\ loop_idx' = loop_idx + 1
          /\ invoked' = invoked \cup {"WorkforceHousingPlanner"}
          /\ UNCHANGED pc
  /\ UNCHANGED << inputVars, rng, now, resolverVars, current_prod, production_gap,
                  chain_buildings, source_type, num_chain_sets_to_build, chain_idx,
                  remaining_amount_to_place, permits_log, simulation_log, recommendation >>

\* -------------------------------------------------------------- permit loop
\* site_area_needed_on_this_planet, lines 966-972
SiteAreaNeeded(st, planet_rec) == SITE_BASE_AREA_COST + CurrentUsedArea(st, planet_rec)

\* permits_to_buy_on_this_planet, lines 974-994
PermitsToBuy(site_area_needed) ==
  LET deficit == site_area_needed - BASE_MAX_AREA_FIRST_PERMIT
      rounded == Min(MAX_ADDITIONAL_PERMITS,
                     Max(0, IntPlus099(Rat(deficit, ADDITIONAL_AREA_PER_PERMIT))))
  IN  IF site_area_needed >
           BASE_MAX_AREA_FIRST_PERMIT + MAX_ADDITIONAL_PERMITS * ADDITIONAL_AREA_PER_PERMIT
      THEN rounded
      ELSE IF deficit > 0 THEN rounded ELSE 0

PermitStep ==
  /\ pc = "permits"
  /\ IF loop_idx > Len(planet_recommendations_map)
     THEN /\ pc' = "done"
          /\ recommendation' =
               << Recommendation(args, current_prod, production_gap,
                                 planet_recommendations_map,
                                 overall_total_estimated_cost, simulation_log) >>
          /\ UNCHANGED << planet_recommendations_map, overall_total_estimated_cost,
                          loop_idx, permits_log, simulation_log >>
     ELSE LET planet_rec == planet_recommendations_map[loop_idx]
              needed == SiteAreaNeeded(state, planet_rec)
              permits == PermitsToBuy(needed)
          IN  /\ planet_recommendations_map' =
                   [planet_recommendations_map EXCEPT
                      ![loop_idx].total_estimated_cost_credits_on_planet =
                         @ + permits * PERMIT_COST]
              /\ overall_total_estimated_cost' =
                   RAdd(overall_total_estimated_cost, RInt(permits * PERMIT_COST))
              /\ permits_log' = Append(permits_log, permits)
              /\ simulation_log' =
                   IF needed > BASE_MAX_AREA_FIRST_PERMIT
                               + MAX_ADDITIONAL_PERMITS * ADDITIONAL_AREA_PER_PERMIT
                   THEN Append(simulation_log,
                               [event |-> "over_capacity", building |-> planet_rec.planet_id,
                                units |-> needed])
                   ELSE simulation_log
              /\ loop_idx' = loop_idx + 1
              /\ UNCHANGED << pc, recommendation >>
  /\ UNCHANGED << inputVars, rng, now, resolverVars, current_prod, production_gap,
                  chain_buildings, source_type, num_chain_sets_to_build, chain_idx,
                  remaining_amount_to_place, invoked >>

\* -------------------------------------------------------------- snapshots
\* the longest window bound of a COGC program, and the latest time a run reads
MaxNow == 1

P1 == PlanetData("P1", 1, <<>>,
                 << COGCProgram("ADVERTISING_FOOD_PROCESSING", 0, 0) >>, "ACTIVE",
                 FALSE, FALSE)
P2 == PlanetData("P2", 0, <<>>, <<>>, None, TRUE, FALSE)
P3 == PlanetData("P3", 0, << Resource("M_FE", "MINERAL", 1) >>, <<>>, None, FALSE, FALSE)

\* the market every catalog shares: H2O asks 2, NUT bids 3, BSE asks 10
BaseMarket ==
  << MarketData("H2O", <<2>>, <<>>, <<2>>),
     MarketData("NUT", <<>>, <<3>>, <<>>),
     MarketData("BSE", <<10>>, <<>>, <<>>) >>

HousingBuildings ==
  ("HB1" :> Building("HB1", <<10>>, None)) @@ ("HBB" :> Building("HBB", <<12>>, None))

HousingCosts ==
  ("HB1" :> << BuildingCostItem("BSE", 2) >>) @@ ("HBB" :> << BuildingCostItem("BSE", 1) >>)

RatRecipe ==
  Recipe("FP:2xH2O-1xNUT=>4xRAT", "FP", 3600000,
         << RecipeIO("H2O", 2), RecipeIO("NUT", 1) >>, << RecipeIO("RAT", 4) >>)

RatMaterials ==
  << Material("M_RAT", "RAT"), Material("M_H2O", "H2O"), Material("M_NUT", "NUT") >>

\* The RAT scenario: one recipe at FP (area 50), quotes for H2O and NUT, three
\* planets; FP's expertise, the HQ planet and a cheap quote for RAT itself vary.
RatState(expertise, hq, ratQuote) ==
  SimulationState(
    RatMaterials,
    ("FP" :> Building("FP", <<50>>, expertise)) @@ HousingBuildings,
    << RatRecipe >>,
    ("FP" :> << BuildingCostItem("BSE", 3) >>) @@ HousingCosts,
    "FP" :> << BuildingWorkforce("PIONEER", 40) >>,
    IF ratQuote THEN BaseMarket \o << MarketData("RAT", <<1>>, <<>>, <<1>>) >>
    ELSE BaseMarket,
    << P1, P2, P3 >>, hq, <<>>, <<>>)

RatWorlds ==
  { [state |-> RatState(e, h, q), args |-> Args("RAT", 100, g)] :
      e \in {"FOOD_PROCESSING", "agriculture", None}, h \in {None, "P2"},
      q \in BOOLEAN, g \in {None, "less area"} }

\* One recipe at BX producing 4 X per hour from nothing; BX's area, its workforce
\* and the target rate (one unit or two) vary. Two planets.
AreaState(area, workforce) ==
  SimulationState(
    << Material("M_X", "X") >>,
    ("BX" :> Building("BX", area, None)) @@ HousingBuildings,
    << Recipe("BX:=>4xX", "BX", 3600000, <<>>, << RecipeIO("X", 4) >>) >>,
    ("BX" :> << BuildingCostItem("BSE", 5) >>) @@ HousingCosts,
    IF workforce THEN "BX" :> << BuildingWorkforce("PIONEER", 40) >>
    ELSE "BX" :> <<>>,
    BaseMarket, << P1, P2 >>, None, <<>>, <<>>)

AreaWorlds ==
  { [state |-> AreaState(a, w), args |-> Args("X", r, None)] :
      a \in {<<>>, <<0>>, <<475>>, <<476>>, <<477>>, <<478>>, <<726>>, <<727>>,
             <<975>>, <<976>>},
      w \in BOOLEAN, r \in {96, 100} }
    \cup { [state |-> AreaState(<<475>>, TRUE), args |-> Args("X", r, "lower cost")] :
             r \in {96, 100} }

\* A recipe that requires its own output: 1 CYC => 2 CYC at BC; the quote of CYC
\* (only a PriceAverage), the HQ planet and the target rate vary.
CycleState(quoted, hq) ==
  SimulationState(
    << Material("M_CYC", "CYC") >>,
    ("BC" :> Building("BC", <<100>>, None)) @@ HousingBuildings,
    << Recipe("BC:1xCYC=>2xCYC", "BC", 3600000,
              << RecipeIO("CYC", 1) >>, << RecipeIO("CYC", 2) >>) >>,
    ("BC" :> << BuildingCostItem("BSE", 5) >>) @@ HousingCosts,
    "BC" :> << BuildingWorkforce("PIONEER", 10) >>,
    IF quoted THEN BaseMarket \o << MarketData("CYC", <<>>, <<>>, <<6>>) >>
    ELSE BaseMarket,
    << P1, P2 >>, hq, <<>>, <<>>)

\* Two recipes that require each other's output: 1 B => 1 A at BA, 1 A => 1 B at BB
LoopState(quoted) ==
  SimulationState(
    << Material("M_A", "A"), Material("M_B", "B") >>,
    ("BA" :> Building("BA", <<20>>, None)) @@ ("BB" :> Building("BB", <<30>>, None))
      @@ HousingBuildings,
    << Recipe("BA:1xB=>1xA", "BA", 3600000, << RecipeIO("B", 1) >>, << RecipeIO("A", 1) >>),
       Recipe("BB:1xA=>1xB", "BB", 3600000, << RecipeIO("A", 1) >>, << RecipeIO("B", 1) >>) >>,
    ("BA" :> << BuildingCostItem("BSE", 1) >>) @@ ("BB" :> << BuildingCostItem("BSE", 1) >>)
      @@ HousingCosts,
    ("BA" :> <<>>) @@ ("BB" :> <<>>),
    IF quoted THEN BaseMarket \o << MarketData("B", <<>>, <<>>, <<4>>) >>
    ELSE BaseMarket,
    << P1, P2 >>, "P1", <<>>, <<>>)

CycleWorlds ==
  { [state |-> CycleState(q, h), args |-> Args("CYC", r, None)] :
      q \in BOOLEAN, h \in {None, "P1"}, r \in {48, 49} }
  \cup { [state |-> LoopState(q), args |-> Args("A", 24, None)] : q \in BOOLEAN }

\* Catalogs with gaps: Y is made from Z at BY, and Z has neither a recipe nor a
\* quote; U is made at BU, a building without a definition; W is made at BW, whose
\* workforce no defined housing building houses.
GapState(planets, hq) ==
  SimulationState(
    << Material("M_Y", "Y"), Material("M_Z", "Z"), Material("M_U", "U"),
       Material("M_W", "W") >>,
    ("BY" :> Building("BY", <<40>>, None)) @@ ("BW" :> Building("BW", <<40>>, None))
      @@ HousingBuildings,
    << Recipe("BY:1xZ=>1xY", "BY", 3600000, << RecipeIO("Z", 1) >>, << RecipeIO("Y", 1) >>),
       Recipe("BU:=>1xU", "BU", 3600000, <<>>, << RecipeIO("U", 1) >>),
       Recipe("BW:1xH2O=>1xW", "BW", 3600000, << RecipeIO("H2O", 1) >>,
              << RecipeIO("W", 1) >>) >>,
    ("BY" :> << BuildingCostItem("BSE", 1) >>) @@ ("BW" :> << BuildingCostItem("BSE", 1) >>)
      @@ HousingCosts,
    ("BY" :> <<>>) @@ ("BW" :> << BuildingWorkforce("ENGINEER", 5) >>),
    BaseMarket, planets, hq, <<>>, <<>>)

GapWorlds ==
  { [state |-> GapState(ps, h), args |-> Args(t, 24, None)] :
      ps \in {<< P1, P2 >>, <<>>}, h \in {None, "P1"}, t \in {"Y", "Z", "U", "W"} }

\* The RAT catalog with one site running FP; what the site's orders are varies.
RunningOrder(id, sbid, duration) ==
  ProductionOrder(id, sbid, "FP:2xH2O-1xNUT=>4xRAT", duration, FALSE, <<5>>)

OrdersOf(kind) ==
  CASE kind = "running" -> << RunningOrder("O1", "SB1", 3600000) >>
    [] kind = "slow" -> << RunningOrder("O1", "SB1", 7200000) >>
    [] kind = "double" -> << RunningOrder("O1", "SB1", 3600000),
                            RunningOrder("O2", "SB1", 3600000) >>
    [] kind = "halted" ->
         << ProductionOrder("O1", "SB1", "FP:2xH2O-1xNUT=>4xRAT", 3600000, TRUE, <<5>>) >>
    [] kind = "pending" ->
         << ProductionOrder("O1", "SB1", "FP:2xH2O-1xNUT=>4xRAT", 3600000, FALSE, <<>>) >>
    [] kind = "unknown_recipe" ->
         << ProductionOrder("O1", "SB1", "FP:=>1xRAT", 3600000, FALSE, <<5>>) >>
    [] kind = "unknown_building" -> << RunningOrder("O1", "SB2", 3600000) >>
    [] kind = "no_duration" -> << RunningOrder("O1", "SB1", 0) >>

OrderKinds ==
  {"running", "slow", "double", "halted", "pending", "unknown_recipe", "unknown_building",
   "no_duration"}

ProdState(kind) ==
  [RatState("FOOD_PROCESSING", None, FALSE) EXCEPT
     !.sites = << Site("S1", << BuildingInstance("SB1", "FP"),
                               BuildingInstance("SB2", "GHOST") >>) >>,
     !.production_orders = OrdersOf(kind)]

ProdWorlds ==
  { [state |-> ProdState(k), args |-> Args("RAT", r, None)] :
      k \in OrderKinds, r \in {0, 48, 96, 100} }

\* The same with a second site S2 running FP at half speed
TwoSiteState(kind) ==
  [ProdState(kind) EXCEPT
     !.sites = Append(@, Site("S2", << BuildingInstance("SB3", "FP") >>)),
     !.production_orders = Append(@, RunningOrder("O9", "SB3", 7200000))]

TwoSiteWorlds ==
  { [state |-> TwoSiteState(k), args |-> Args("RAT", 300, None)] : k \in OrderKinds }

\* Catalogs in which several recipes produce T. "cheap" and "twin" cost the same per
\* unit at different buildings, "dear" costs more and yields 4 T not 5, "dead" needs
\* Z, which nothing supplies, after M; "viaM" needs M, which BM makes from H2O at no
\* construction cost, so that producing one M costs exactly the 2 of its H2O.
MixRecipe(kind) ==
  CASE kind = "cheap" -> Recipe("BTA:1xH2O=>5xT", "BTA", 3600000,
                                << RecipeIO("H2O", 1) >>, << RecipeIO("T", 5) >>)
    [] kind = "twin" -> Recipe("BTC:1xH2O=>5xT", "BTC", 3600000,
                               << RecipeIO("H2O", 1) >>, << RecipeIO("T", 5) >>)
    [] kind = "dear" -> Recipe("BTB:1xNUT=>4xT", "BTB", 3600000,
                               << RecipeIO("NUT", 1) >>, << RecipeIO("T", 4) >>)
    [] kind = "dead" -> Recipe("BTZ:1xM-1xZ=>9xT", "BTZ", 3600000,
                               << RecipeIO("M", 1), RecipeIO("Z", 1) >>,
                               << RecipeIO("T", 9) >>)
    [] kind = "viaM" -> Recipe("BTM:1xM=>5xT", "BTM", 3600000,
                               << RecipeIO("M", 1) >>, << RecipeIO("T", 5) >>)
    [] kind = "makeM" -> Recipe("BM:1xH2O=>1xM", "BM", 3600000,
                                << RecipeIO("H2O", 1) >>, << RecipeIO("M", 1) >>)

MixBuildings ==
  [b \in {"BTA", "BTB", "BTC", "BTZ", "BTM", "BM"} |->
     Building(b, IF b = "BTB" THEN <<30>> ELSE <<20>>, None)]

MixCosts ==
  ("BTA" :> << BuildingCostItem("BSE", 1) >>) @@ ("BTC" :> << BuildingCostItem("BSE", 1) >>)
    @@ ("BTB" :> << BuildingCostItem("BSE", 3) >>)
    @@ ("BTZ" :> << BuildingCostItem("BSE", 1) >>)
    @@ ("BTM" :> << BuildingCostItem("BSE", 2) >>)

MixWorkforce ==
  ("BTA" :> << BuildingWorkforce("PIONEER", 101) >>)
    @@ ("BTC" :> << BuildingWorkforce("PIONEER", 76) >>)
    @@ ("BTB" :> << BuildingWorkforce("PIONEER", 38) >>)
    @@ ("BTZ" :> <<>>)
    @@ ("BTM" :> << BuildingWorkforce("SETTLER", 150) >>)
    @@ ("BM" :> << BuildingWorkforce("SETTLER", 75) >>)

MixState(kinds, mQuote) ==
  SimulationState(
    << Material("M_T", "T"), Material("M_M", "M"), Material("M_Z", "Z"),
       Material("M_H2O", "H2O"), Material("M_NUT", "NUT") >>,
    MixBuildings @@ HousingBuildings
      @@ ("HB2" :> Building("HB2", <<10>>, None)),
    [i \in 1..Len(kinds) |-> MixRecipe(kinds[i])],
    MixCosts @@ HousingCosts,
    MixWorkforce,
    IF mQuote = <<>> THEN BaseMarket
    ELSE BaseMarket \o << MarketData("M", mQuote, <<>>, <<>>) >>,
    << P1, P2 >>, None, <<>>, <<>>)

MixCatalogs ==
  { [kinds |-> << "cheap", "dear" >>, mQuote |-> <<>>],
    [kinds |-> << "dear", "cheap" >>, mQuote |-> <<>>],
    [kinds |-> << "cheap", "twin" >>, mQuote |-> <<>>],
    [kinds |-> << "twin", "cheap" >>, mQuote |-> <<>>],
    [kinds |-> << "dead", "cheap", "makeM" >>, mQuote |-> <<3>>],
    [kinds |-> << "cheap", "dead", "makeM" >>, mQuote |-> <<3>>],
    [kinds |-> << "dead", "makeM" >>, mQuote |-> <<3>>] }
  \cup { [kinds |-> << "viaM", "makeM" >>, mQuote |-> q] : q \in {<<>>, <<1>>, <<2>>, <<3>>} }

MixWorlds ==
  { [state |-> MixState(c.kinds, c.mQuote), args |-> Args("T", r, g)] :
      c \in MixCatalogs, r \in {120, 121}, g \in {None, "less area"} }

\* The self-requiring recipe of CycleState with a quote of CYC that carries an Ask
\* only, or a Bid only
GuardState(ask, bid) ==
  [CycleState(FALSE, None) EXCEPT
     !.dynamic_market_data = BaseMarket \o << MarketData("CYC", ask, bid, <<>>) >>]

GuardWorlds ==
  { [state |-> GuardState(<<6>>, <<>>), args |-> Args("CYC", 48, None)],
    [state |-> GuardState(<<>>, <<7>>), args |-> Args("CYC", 48, None)] }

\* The extraction scenario: EXT extracts FE, RIG extracts LIQ, BT makes T from
\* one of each; P3 carries FE as a mineral, PL carries LIQ as a liquid, FE as a
\* gas and an exhausted FE mineral entry. PL's presence, FE's entry in the
\* material table and the areas of EXT and RIG vary; LIQ is also asked at 4, and
\* BSE, which no recipe makes, is a target too.
PL == PlanetData("PL", 0, << Resource("M_LIQ", "LIQUID", 1), Resource("M_FE", "GASEOUS", 1),
                            Resource("M_FE", "MINERAL", 0) >>,
                 <<>>, None, FALSE, FALSE)

ExtractState(withPL, withFE, areas) ==
  SimulationState(
    (IF withFE THEN << Material("M_FE", "FE") >> ELSE <<>>)
      \o << Material("M_LIQ", "LIQ"), Material("M_T", "T") >>,
    ("EXT" :> Building("EXT", << areas[1] >>, "RESOURCE_EXTRACTION"))
      @@ ("RIG" :> Building("RIG", << areas[2] >>, "RESOURCE_EXTRACTION"))
      @@ ("BT" :> Building("BT", <<20>>, None)) @@ HousingBuildings,
    << Recipe("EXT:=>1xFE", "EXT", 3600000, <<>>, << RecipeIO("FE", 1) >>),
       Recipe("RIG:=>1xLIQ", "RIG", 3600000, <<>>, << RecipeIO("LIQ", 1) >>),
       Recipe("BT:1xFE-1xLIQ=>1xT", "BT", 3600000,
              << RecipeIO("FE", 1), RecipeIO("LIQ", 1) >>, << RecipeIO("T", 1) >>) >>,
    ("EXT" :> << BuildingCostItem("BSE", 1) >>) @@ ("RIG" :> << BuildingCostItem("BSE", 1) >>)
      @@ ("BT" :> << BuildingCostItem("BSE", 1) >>) @@ HousingCosts,
    ("EXT" :> <<>>) @@ ("RIG" :> <<>>) @@ ("BT" :> <<>>),
    BaseMarket \o << MarketData("LIQ", <<4>>, <<>>, <<>>) >>,
    IF withPL THEN << P1, P3, PL >> ELSE << P1, P3 >>, None, <<>>, <<>>)

ExtractWorlds ==
  { [state |-> ExtractState(l, f, << 20, 20 >>), args |-> Args(t, 24, None)] :
      l \in BOOLEAN, f \in BOOLEAN, t \in {"FE", "LIQ", "T", "BSE"} }
    \cup { [state |-> ExtractState(l, TRUE, << 400, 100 >>), args |-> Args("T", 48, None)] :
             l \in BOOLEAN }

Snapshots ==
  RatWorlds \cup AreaWorlds \cup CycleWorlds \cup GapWorlds \cup ProdWorlds
    \cup TwoSiteWorlds \cup MixWorlds \cup GuardWorlds \cup ExtractWorlds

\* hashseed matters only where a material has several producing buildings
HashSeedsFor(st) ==
  IF \E i \in 1..Len(st.static_recipes) :
       Len(ProducingBuildingTickers(st, st.static_recipes[i].Outputs[1].MaterialTicker)) > 1
  THEN {0, 1} ELSE {0}

\* ------------------------------------------------------------ specification
Init ==
  /\ \E w \in Snapshots : state = w.state /\ args = w.args
  /\ hashseed \in HashSeedsFor(state)
  /\ now = 0
  /\ pc = "start"
  /\ stack = <<>>
  /\ ret = <<>>
  /\ current_prod = RInt(0)
  /\ production_gap = RInt(0)
  /\ chain_buildings = <<>>
  /\ source_type = None
  /\ num_chain_sets_to_build = 0
  /\ chain_idx = 1
  /\ remaining_amount_to_place = 0
  /\ planet_recommendations_map = <<>>
  /\ overall_total_estimated_cost = RInt(0)
  /\ loop_idx = 1
  /\ permits_log = <<>>
  /\ simulation_log = <<>>
  /\ recommendation = <<>>
  /\ invoked = {}
  /\ depth_entered = 0
  /\ last_return = <<>>
  /\ rng = [mode |-> "free", tape |-> <<>>, pos |-> 1]
  /\ first_run = <<>>

\* time passes between any two steps of the run
Tick ==
  /\ now < MaxNow
  /\ pc \notin {"done", "error"}
  /\ now' = now + 1
  /\ UNCHANGED << inputVars, rng, pc, resolverVars, current_prod, production_gap, allocVars,
                  simulation_log, recommendation, invoked >>

Next ==
  \/ Tick
  \/ StartSimulation
  \/ ResolverEnter
  \/ ResolverRecipe
  \/ ResolverCall
  \/ ResolverReturn
  \/ ResolverFinishRecipe
  \/ ResolverDecide
  \/ AfterResolve
  \/ AllocFor
  \/ AllocWhile
  \/ HousingStep
  \/ PermitStep

Spec == Init /\ [][Next]_vars

\* every step that can be taken is eventually taken: the run is one thread that is
\* never suspended
FairSpec == Init /\ [][Next]_vars /\ WF_vars(Next)

\* ------------------------------------------------- two runs on one snapshot
\* run_simulation is called again on the same snapshot, in the same process, with
\* the random module seeded as for the first call; the clock is the most favourable
\* one: the second run may read the very times the first read.
Rerun ==
  /\ pc = "done"
  /\ first_run = <<>>
  /\ rng.mode = "record"
  /\ first_run' = recommendation
  /\ rng' = [mode |-> "replay", tape |-> rng.tape, pos |-> 1]
  /\ now' = 0
  /\ pc' = "start"
  /\ stack' = <<>>
  /\ ret' = <<>>
  /\ current_prod' = RInt(0)
  /\ production_gap' = RInt(0)
  /\ chain_buildings' = <<>>
  /\ source_type' = None
  /\ num_chain_sets_to_build' = 0
  /\ chain_idx' = 1
  /\ remaining_amount_to_place' = 0
  /\ planet_recommendations_map' = <<>>
  /\ overall_total_estimated_cost' = RInt(0)
  /\ loop_idx' = 1
  /\ permits_log' = <<>>
  /\ simulation_log' = <<>>
  /\ recommendation' = <<>>
  /\ invoked' = {}
  /\ depth_entered' = 0
  /\ last_return' = <<>>
  /\ UNCHANGED << state, args, hashseed >>

TwoRunInit ==
  /\ \E w \in RatWorlds : state = w.state /\ args = w.args
  /\ hashseed \in HashSeedsFor(state)
  /\ now = 0
  /\ pc = "start"
  /\ stack = <<>>
  /\ ret = <<>>
  /\ current_prod = RInt(0)
  /\ production_gap = RInt(0)
  /\ chain_buildings = <<>>
  /\ source_type = None
  /\ num_chain_sets_to_build = 0
  /\ chain_idx = 1
  /\ remaining_amount_to_place = 0
  /\ planet_recommendations_map = <<>>
  /\ overall_total_estimated_cost = RInt(0)
  /\ loop_idx = 1
  /\ permits_log = <<>>
  /\ simulation_log = <<>>
  /\ recommendation = <<>>
  /\ invoked = {}
  /\ depth_entered = 0
  /\ last_return = <<>>
  /\ rng = [mode |-> "record", tape |-> <<>>, pos |-> 1]
  /\ first_run = <<>>

TwoRunNext == Next \/ Rerun

TwoRunSpec == TwoRunInit /\ [][TwoRunNext]_vars

\* =================================================================== claims
\* ---------------------------------------------------------------------- C1
\* the target rate is at most the current rate of calculate_current_production
TargetMet ==
  RLe(RInt(args.target_production_rate),
      calculate_current_production(state, args.desired_material_ticker, None))

\* C1: once a run whose target rate is at most the current production rate has
\* started, it has returned a Recommendation with gap <= 0, no recommended planet
\* and total cost 0, and has entered neither the cost resolver, nor the allocation,
\* nor the housing planner.
C1_NoGapReturnsEmpty ==
  (pc # "start" /\ TargetMet) =>
    /\ pc = "done"
    /\ recommendation # <<>>
    /\ RLe(recommendation[1].production_gap_units_per_day, RInt(0))
    /\ recommendation[1].recommended_planets = <<>>
    /\ recommendation[1].total_estimated_cost_credits = RInt(0)
    /\ invoked \cap {"CostResolver", "PlanetSelector", "AllocationEngine",
                     "WorkforceHousingPlanner"} = {}

\* a run returned with the target rate equal to a positive current rate
C1_Witness ==
  /\ pc = "done"
  /\ TargetMet
  /\ current_prod = RInt(96)
  /\ args.target_production_rate = 96
  /\ recommendation # <<>>

\* ---------------------------------------------------------------------- C2
\* Recipe i is viable for the material whatever is drawn: its building is defined,
\* its output and duration are positive, every input has a finite market price, and
\* a planet is resolvable (the HQ planet, or a selector candidate at every time).
ViableRecipe(st, i, ticker, hs) ==
  /\ Produces(st.static_recipes[i], ticker)
  /\ st.static_recipes[i].BuildingTicker \in DOMAIN st.static_buildings
  /\ st.static_recipes[i].DurationMs > 0
  /\ \E o \in 1..Len(st.static_recipes[i].Outputs) :
       /\ st.static_recipes[i].Outputs[o].MaterialTicker = ticker
       /\ st.static_recipes[i].Outputs[o].Amount > 0
  /\ \A k \in 1..Len(st.static_recipes[i].Inputs) :
       ~IsInf(BuyCost(st, st.static_recipes[i].Inputs[k].MaterialTicker))
  /\ \/ st.hq # None
     \/ \A t \in 0..MaxNow :
          find_best_expansion_planet(
            st, _get_material_production_category(st, ticker, hs),
            st.static_recipes[i].BuildingTicker, t) # <<>>

HasViableRecipe(st, ticker, hs) ==
  \E i \in 1..Len(st.static_recipes) : ViableRecipe(st, i, ticker, hs)

\* C2: a call with is_final_material = true for a material that has a viable
\* recipe returns source PRODUCE, whatever the market price of the material.
C2_FinalProducesWhenViable ==
  (/\ last_return # <<>>
   /\ last_return[1].frame.is_final_material
   /\ HasViableRecipe(state, last_return[1].frame.material_ticker, hashseed))
  => last_return[1].result.source = "PRODUCE"

\* the final call returned PRODUCE although buying was strictly cheaper
C2_Witness ==
  /\ last_return # <<>>
  /\ last_return[1].frame.is_final_material
  /\ HasViableRecipe(state, last_return[1].frame.material_ticker, hashseed)
  /\ last_return[1].result.source = "PRODUCE"
  /\ RLt(last_return[1].frame.buy_cost_per_unit, last_return[1].result.cost)

\* ---------------------------------------------------------------------- C3
NoRecipeNoQuote(st, ticker) ==
  /\ \A i \in 1..Len(st.static_recipes) : ~Produces(st.static_recipes[i], ticker)
  /\ \A i \in 1..Len(st.dynamic_market_data) :
       st.dynamic_market_data[i].MaterialTicker # ticker

\* C3: every resolver call for a material with no producing recipe and no market
\* quote returns (infinity, UNKNOWN, no sub-buildings, no planet), for the final
\* material and for an input alike, at every depth.
C3_UnknownWithoutRecipeAndQuote ==
  (last_return # <<>> /\ NoRecipeNoQuote(state, last_return[1].frame.material_ticker))
  => last_return[1].result = Result(Inf, "UNKNOWN", <<>>, None)

\* the final material without recipe and quote did come back as UNKNOWN
C3_FinalWitness ==
  /\ last_return # <<>>
  /\ NoRecipeNoQuote(state, last_return[1].frame.material_ticker)
  /\ last_return[1].frame.is_final_material
  /\ last_return[1].result = Result(Inf, "UNKNOWN", <<>>, None)

\* ---------------------------------------------------------------------- C4
\* C4 as the code has it: no call is entered deeper than max_recursion_depth + 1,
\* and a call entered at max_recursion_depth + 1 returns from the depth guard: no
\* frame deeper than max_recursion_depth gets past its entry, so recipes are
\* evaluated at depths 0..max_recursion_depth only.
C4_DepthAtMostOnePastMax ==
  /\ depth_entered <= max_recursion_depth + 1
  /\ \A i \in 1..Len(stack) :
       /\ stack[i].recursion_depth = i - 1
       /\ stack[i].recursion_depth > max_recursion_depth => stack[i].phase = "enter"

\* a call was entered at depth max_recursion_depth + 1 and returned from the guard
C4_Witness ==
  /\ depth_entered = max_recursion_depth + 1
  /\ last_return # <<>>
  /\ last_return[1].frame.recursion_depth = max_recursion_depth + 1
  /\ last_return[1].frame.phase = "enter"

\* C4 as stated: no call is ever entered with a recursion depth above max_recursion_depth
C4_DepthNeverAboveMax == depth_entered <= max_recursion_depth

\* ---------------------------------------------------------------------- C5
\* One iteration of the allocation while-loop (a step taken at "alloc_while" other
\* than the clock's) places at least one unit, or abandons the remaining units of
\* the template and leaves the loop.
AllocIterationProgresses ==
  (pc = "alloc_while" /\ now' = now) =>
    \/ /\ remaining_amount_to_place' < remaining_amount_to_place
       /\ remaining_amount_to_place' >= 0
    \/ /\ pc' = "alloc_for"
       /\ chain_idx' = chain_idx + 1
       /\ remaining_amount_to_place' = remaining_amount_to_place
       /\ Len(simulation_log') = Len(simulation_log) + 1
       /\ simulation_log'[Len(simulation_log')].event = "no_planet"

\* C5: every run ends; the resolver's stack stays within the depth bound; every
\* iteration of the allocation while-loop places a unit or abandons and exits.
C5_Terminates ==
  /\ <>(pc \in {"done", "error"})
  /\ [](Len(stack) <= max_recursion_depth + 2)
  /\ [][AllocIterationProgresses]_vars

\* a run ended after abandoning units of a building of area 0 or above the budget
C5_Witness ==
  /\ pc = "done"
  /\ "BX" \in DOMAIN state.static_buildings
  /\ state.static_buildings["BX"].area \in {<<0>>, <<976>>}
  /\ \E i \in 1..Len(simulation_log) : simulation_log[i].event = "no_planet"

\* ---------------------------------------------------------------------- C6
\* 25 + the sum over the planet's recommended buildings of amount x building area
AreaConsumed(st, planet_rec) ==
  LET bs == planet_rec.recommended_buildings_on_planet
      f[i \in 0..Len(bs)] ==
        IF i = 0 THEN SITE_BASE_AREA_COST
        ELSE IF /\ bs[i].building_ticker \in DOMAIN st.static_buildings
                /\ st.static_buildings[bs[i].building_ticker].area # <<>>
             THEN f[i - 1] + bs[i].amount_to_build
                               * st.static_buildings[bs[i].building_ticker].area[1]
             ELSE f[i - 1]
  IN  f[Len(bs)]

\* C6: in a returned Recommendation every planet's consumed area (production and
\* housing, with the site overhead) is at most 1000, at most 2 permits are
\* recommended for it, and above 500 the permits cover it: 500 + 250 x permits >= area.
C6_AreaWithinPermits ==
  pc = "done" =>
    \A i \in 1..Len(planet_recommendations_map) :
      /\ AreaConsumed(state, planet_recommendations_map[i])
           <= BASE_MAX_AREA_FIRST_PERMIT + MAX_ADDITIONAL_PERMITS * ADDITIONAL_AREA_PER_PERMIT
      /\ permits_log[i] <= MAX_ADDITIONAL_PERMITS
      /\ AreaConsumed(state, planet_recommendations_map[i]) > BASE_MAX_AREA_FIRST_PERMIT
           => BASE_MAX_AREA_FIRST_PERMIT + ADDITIONAL_AREA_PER_PERMIT * permits_log[i]
                >= AreaConsumed(state, planet_recommendations_map[i])

\* ---------------------------------------------------------------------- C7
\* C7: a second run on the same snapshot with the random module seeded as for the
\* first returns the Recommendation the first returned, site ids included.
C7_SecondRunAgrees ==
  (pc = "done" /\ first_run # <<>>) => recommendation = first_run

\* a second run has returned after the first recommended at least one planet
C7_Witness ==
  /\ pc = "done"
  /\ first_run # <<>>
  /\ first_run[1].recommended_planets # <<>>
  /\ recommendation # <<>>

\* ---------------------------------------------------------------------- C8
\* the scenario: RAT at 100 a day, nothing produced, the one recipe at FP (area 50)
\* with quotes for its two inputs
RatScenario ==
  /\ args.desired_material_ticker = "RAT"
  /\ args.target_production_rate = 100
  /\ state.static_recipes = << RatRecipe >>
  /\ "FP" \in DOMAIN state.static_buildings
  /\ state.static_buildings["FP"].area = <<50>>
  /\ calculate_current_production(state, "RAT", None) = RInt(0)
  /\ ~IsInf(BuyCost(state, "H2O"))
  /\ ~IsInf(BuyCost(state, "NUT"))

\* the planet satisfies the suitability rule of FP's expertise category at time t
SatisfiesFP(planet, t) ==
  SelectorSuitable(state, planet, _get_building_expertise_category(state, "FP"), "FP", t)

\* the FP units recommended on a planet
FPUnitsOn(planet_rec) ==
  LET bs == planet_rec.recommended_buildings_on_planet
      f[i \in 0..Len(bs)] ==
        IF i = 0 THEN 0
        ELSE IF bs[i].building_ticker = "FP" THEN f[i - 1] + bs[i].amount_to_build
             ELSE f[i - 1]
  IN  f[Len(bs)]

FPUnits(map) ==
  LET f[i \in 0..Len(map)] == IF i = 0 THEN 0 ELSE f[i - 1] + FPUnitsOn(map[i])
  IN  f[Len(map)]

PlanetOf(planet_id) ==
  state.all_planets_data[
    CHOOSE k \in 1..Len(state.all_planets_data) :
      state.all_planets_data[k].PlanetId = planet_id]

RatScenarioStep ==
  (RatScenario /\ \E k \in 1..Len(state.all_planets_data) :
                    SatisfiesFP(state.all_planets_data[k], now))
  => /\ (pc # "done" /\ pc' = "done")
          => /\ production_gap = RInt(100)
             /\ source_type = "PRODUCE"
             /\ FPUnits(planet_recommendations_map) = 2
     /\ \A i \in 1..Len(planet_recommendations_map') :
          FPUnitsOn(planet_recommendations_map'[i])
             > (IF i <= Len(planet_recommendations_map)
                THEN FPUnitsOn(planet_recommendations_map[i]) ELSE 0)
          => SatisfiesFP(PlanetOf(planet_recommendations_map'[i].planet_id), now)

\* C8: in the RAT scenario with a planet suitable for FP's category, the run
\* returns with gap 100, source PRODUCE and exactly 2 FP units in all, and every
\* FP unit is placed on a planet that satisfies FP's category when it is placed.
C8_RatScenario == [][RatScenarioStep]_vars

\* the scenario's run returned gap 100, PRODUCE and two FP units
C8_Witness ==
  /\ RatScenario
  /\ pc = "done"
  /\ production_gap = RInt(100)
  /\ source_type = "PRODUCE"
  /\ FPUnits(planet_recommendations_map) = 2

\* ---------------------------------------------------------------------- C9
\* C9: no run reaches an exception, and a run that has ended has returned a
\* Recommendation.
C9_NeverRaises ==
  /\ pc # "error"
  /\ pc = "done" => recommendation # <<>>

\* a run returned although an input of the target's only recipe has no recipe and
\* no quote
C9_Witness ==
  /\ pc = "done"
  /\ recommendation # <<>>
  /\ args.desired_material_ticker = "Y"
  /\ NoRecipeNoQuote(state, "Z")
  /\ source_type = "UNKNOWN"

\* --------------------------------------------------------------------- C10
\* 0 up to 500, else ceil((areaConsumed - 500) / 250) capped at 2
ExpectedPermits(area_consumed) ==
  IF area_consumed <= BASE_MAX_AREA_FIRST_PERMIT THEN 0
  ELSE Min(MAX_ADDITIONAL_PERMITS,
           Ceil(Rat(area_consumed - BASE_MAX_AREA_FIRST_PERMIT, ADDITIONAL_AREA_PER_PERMIT)))

PermitStepAsStated ==
  (pc = "permits" /\ loop_idx <= Len(planet_recommendations_map) /\ now' = now) =>
    /\ permits_log' =
         Append(permits_log,
                ExpectedPermits(AreaConsumed(state, planet_recommendations_map[loop_idx])))
    /\ planet_recommendations_map'[loop_idx].total_estimated_cost_credits_on_planet =
         planet_recommendations_map[loop_idx].total_estimated_cost_credits_on_planet
           + PERMIT_COST * permits_log'[Len(permits_log')]
    /\ overall_total_estimated_cost' =
         RAdd(overall_total_estimated_cost,
              RInt(PERMIT_COST * permits_log'[Len(permits_log')]))

\* C10: the permit step of a planet recommends 0 permits up to area 500 and
\* min(2, ceil((area - 500) / 250)) above, and adds permits x 50000 to the planet's
\* total and to the overall total.
C10_PermitsAreCeil == [][PermitStepAsStated]_vars

\* a planet whose consumed area is 1 or 2 above 500 or 750 went through the permit step
C10_Witness ==
  /\ permits_log # <<>>
  /\ AreaConsumed(state, planet_recommendations_map[Len(permits_log)])
       \in {501, 502, 751, 752}

\* --------------------------------------------------------------------- C11
\* the step that leaves the resolver for the allocation loop (PRODUCE and a
\* positive per-building rate) sets the number of chain-sets to ceil(gap / rate)
ChainSetsStepAsStated ==
  (pc = "resolve" /\ pc' = "alloc_for") =>
    num_chain_sets_to_build' =
      Ceil(RDiv(production_gap,
                ProductionRatePerBuilding(state, args.desired_material_ticker)))

\* C11: when the target resolves to PRODUCE with a positive per-building throughput,
\* the number of chain-sets equals ceil(productionGap / perBuildingThroughput), also
\* where the ratio's fractional part is below 0.01.
C11_ChainSetsAreCeil == [][ChainSetsStepAsStated]_vars

\* the allocation loop was entered with a ratio whose fractional part is in (0, 0.01)
C11_Witness ==
  /\ pc = "alloc_for"
  /\ source_type = "PRODUCE"
  /\ \E x \in {RDiv(production_gap,
                    ProductionRatePerBuilding(state, args.desired_material_ticker))} :
       /\ RLt(RInt(Floor(x)), x)
       /\ RLt(x, RAdd(RInt(Floor(x)), Rat(1, 100)))

\* --------------------------------------------------------------------- C12
\* the last resolver return is that of an intermediate material within maxDepth
IntermediateReturned ==
  /\ last_return # <<>>
  /\ ~last_return[1].frame.is_final_material
  /\ last_return[1].frame.recursion_depth <= max_recursion_depth

\* C12: an intermediate material resolved within maxDepth returns the smaller of its
\* buy price and its cheapest production cost; BUY with no sub-buildings whenever
\* buy <= production (ties included), PRODUCE only when production is strictly cheaper.
C12_IntermediateTakesCheaper ==
  IntermediateReturned =>
    \E buy \in {BuyCost(state, last_return[1].frame.material_ticker)} :
    \E prod \in {last_return[1].frame.best_production_cost_per_unit} :
    \E r \in {last_return[1].result} :
      /\ r.cost = IF RLe(buy, prod) THEN buy ELSE prod
      /\ r.source \in {"BUY", "PRODUCE"}
      /\ RLe(buy, prod) => (r.source = "BUY" /\ r.subs = <<>>)
      /\ r.source = "PRODUCE" => RLt(prod, buy)

\* an intermediate material with a quote was returned as PRODUCE
C12_Witness ==
  /\ IntermediateReturned
  /\ last_return[1].result.source = "PRODUCE"
  /\ ~IsInf(BuyCost(state, last_return[1].frame.material_ticker))

\* an intermediate material whose quote equals its production cost was returned
C12_TieWitness ==
  /\ IntermediateReturned
  /\ ~IsInf(BuyCost(state, last_return[1].frame.material_ticker))
  /\ BuyCost(state, last_return[1].frame.material_ticker)
       = last_return[1].frame.best_production_cost_per_unit

\* --------------------------------------------------------------------- C13
\* the order is linked to an instance of a defined building on a site that passes
\* the filter, is not halted, has a completion timestamp, a known recipe and a
\* positive duration
OrderCounts(st, order, target_site_id) ==
  /\ ~order.IsHalted
  /\ order.CompletionEpochMs # <<>>
  /\ order.DurationMs > 0
  /\ \E r \in 1..Len(st.static_recipes) :
       st.static_recipes[r].StandardRecipeName = order.StandardRecipeName
  /\ \E s \in 1..Len(st.sites) :
       /\ target_site_id = None \/ st.sites[s].SiteId = target_site_id
       /\ \E b \in 1..Len(st.sites[s].Buildings) :
            /\ st.sites[s].Buildings[b].SiteBuildingId = order.BuildingId
            /\ st.sites[s].Buildings[b].BuildingTicker \in DOMAIN st.static_buildings

\* units per day of ticker over the outputs of the order's recipe
OrderRate(st, order, ticker) ==
  LET recipe == CHOOSE r \in {st.static_recipes[i] : i \in 1..Len(st.static_recipes)} :
                  r.StandardRecipeName = order.StandardRecipeName
      Add(i) == IF recipe.Outputs[i].MaterialTicker = ticker
                THEN Rat(recipe.Outputs[i].Amount * MS_IN_DAY, order.DurationMs)
                ELSE RInt(0)
  IN  RSumOver(Add, Len(recipe.Outputs))

\* the sum the claim states
StatedProduction(st, ticker, target_site_id) ==
  LET Add(i) == IF OrderCounts(st, st.production_orders[i], target_site_id)
                THEN OrderRate(st, st.production_orders[i], ticker)
                ELSE RInt(0)
  IN  RSumOver(Add, Len(st.production_orders))

\* the site filters a caller can pass: none, each site of the snapshot, an unknown site
SiteFilters(st) == {None, "S0"} \cup {st.sites[s].SiteId : s \in 1..Len(st.sites)}

\* C13: calculate_current_production returns the sum of outputAmount x MS_PER_DAY /
\* durationMs over the matching outputs of every counted order, for every site
\* filter; orders that are halted, without completion timestamp or with a missing
\* recipe or building definition add nothing; the result is >= 0. The rate the run
\* computes at its start is that sum without a filter.
C13_CurrentProductionIsSum ==
  /\ \A f \in SiteFilters(state) :
       /\ calculate_current_production(state, args.desired_material_ticker, f)
            = StatedProduction(state, args.desired_material_ticker, f)
       /\ RLe(RInt(0), calculate_current_production(state, args.desired_material_ticker, f))
  /\ pc # "start" =>
       current_prod = StatedProduction(state, args.desired_material_ticker, None)

\* the run computed a positive rate over two sites, one of which alone yields less
C13_Witness ==
  /\ pc # "start"
  /\ RPos(current_prod)
  /\ \E f \in SiteFilters(state) :
       /\ RPos(calculate_current_production(state, args.desired_material_ticker, f))
       /\ RLt(calculate_current_production(state, args.desired_material_ticker, f),
              current_prod)

\* --------------------------------------------------------------------- C14
HousingTickers == {HOUSING_BUILDING[i].ticker : i \in 1..Len(HOUSING_BUILDING)}

\* the capacity one unit of the housing building provides for the workforce type
CapacityPerUnit(ticker, wf_type) ==
  HousingCapacityFor(
    HOUSING_BUILDING[CHOOSE i \in 1..Len(HOUSING_BUILDING) :
                       HOUSING_BUILDING[i].ticker = ticker],
    wf_type)

\* the workforce types of the planet with positive demand that some defined housing
\* building houses, in the order of the planet's demand
HousedTypes(st, planet_rec) ==
  SelectSeq(planet_rec.total_estimated_workforce_needed_on_planet,
            LAMBDA wf : wf.amount > 0 /\ HousingCandidates(st, wf.type) # <<>>)

\* the housing recommended on the planet, in the order it was added
HousingEntries(planet_rec) ==
  SelectSeq(planet_rec.recommended_buildings_on_planet,
            LAMBDA b : b.building_ticker \in HousingTickers)

\* the planets of the map the housing loop is through with
HousingPlanned ==
  IF pc = "housing" THEN 1..(loop_idx - 1)
  ELSE IF pc \in {"permits", "done"} THEN 1..Len(planet_recommendations_map)
  ELSE {}

\* units of housing of capacity cap cover the demand and one fewer would not
CoversExactly(units, cap, demand) ==
  /\ cap > 0
  /\ units = Ceil(Rat(demand, cap))
  /\ units * cap >= demand
  /\ (units - 1) * cap < demand

\* C14: on every recommended planet, each workforce type with positive demand for
\* which a housing building is selected gets ceil(demand / capacityPerUnit) units of
\* it: the capacity provided covers the demand and one unit fewer would not.
C14_HousingUnitsAreCeil ==
  \A i \in HousingPlanned :
    \E types \in {HousedTypes(state, planet_recommendations_map[i])} :
    \E entries \in {HousingEntries(planet_recommendations_map[i])} :
      /\ Len(entries) = Len(types)
      /\ \A k \in 1..Len(types) :
           CoversExactly(entries[k].amount_to_build,
                         CapacityPerUnit(entries[k].building_ticker, types[k].type),
                         types[k].amount)

\* housing was planned for a demand one above a multiple of the unit's capacity
C14_Witness ==
  \E i \in HousingPlanned :
    \E types \in {HousedTypes(state, planet_recommendations_map[i])} :
    \E entries \in {HousingEntries(planet_recommendations_map[i])} :
      /\ Len(entries) = Len(types)
      /\ \E k \in 1..Len(types) :
           types[k].amount
             % CapacityPerUnit(entries[k].building_ticker, types[k].type) = 1

\* the same with a unit of capacity 100
C14_HundredWitness ==
  \E i \in HousingPlanned :
    \E b \in {HousingEntries(planet_recommendations_map[i])} :
    \E types \in {HousedTypes(state, planet_recommendations_map[i])} :
      \E k \in 1..Len(types) :
        /\ k <= Len(b)
        /\ CapacityPerUnit(b[k].building_ticker, types[k].type) = 100
        /\ types[k].amount % 100 = 1

\* --------------------------------------------------------------------- C15
\* C15: no step of run_simulation or of a component it calls changes the snapshot:
\* the catalogs, the planet list (contents and order), the company's sites, the
\* production orders and the market quotes stay what they were before the run.
C15_SnapshotUnchanged == [][state' = state]_vars

\* a run ended that shuffled the planets, placed buildings and planned housing
C15_Witness ==
  /\ pc = "done"
  /\ planet_recommendations_map # <<>>
  /\ "WorkforceHousingPlanner" \in invoked
  /\ Len(state.all_planets_data) > 1

\* --------------------------------------------------------------------- C16
\* the run went on from a PRODUCE result for the target material
TargetProduced ==
  /\ source_type = "PRODUCE"
  /\ last_return # <<>>
  /\ last_return[1].frame.is_final_material

\* C16: when the target resolves to PRODUCE, the recipe whose output and duration
\* give the per-building throughput is the recipe the resolver kept as cheapest,
\* also where several recipes produce the target.
C16_ThroughputFromChosenRecipe ==
  TargetProduced =>
    find_best_recipe_and_building(state, args.desired_material_ticker)
      = last_return[1].frame.best_production_recipe

\* chain-sets were scaled for a target that several recipes produce
C16_Witness ==
  /\ TargetProduced
  /\ pc = "alloc_for"
  /\ Len(PossibleRecipes(state, args.desired_material_ticker)) > 1

\* --------------------------------------------------------------------- C17
\* the last resolver return is that of a call entered beyond maxDepth
GuardReturned ==
  /\ last_return # <<>>
  /\ last_return[1].frame.recursion_depth > max_recursion_depth

\* C17: a call entered beyond maxDepth returns the material's market price (Ask, else
\* Bid, else PriceAverage) with source BUY whenever its quote carries any price, and
\* (infinity, UNKNOWN) only when it carries none.
C17_GuardUsesAnyPrice ==
  GuardReturned =>
    \E buy \in {BuyCost(state, last_return[1].frame.material_ticker)} :
      IF IsInf(buy)
      THEN /\ last_return[1].result.source = "UNKNOWN"
           /\ IsInf(last_return[1].result.cost)
      ELSE /\ last_return[1].result.source = "BUY"
           /\ last_return[1].result.cost = buy

\* a call beyond maxDepth returned for a material quoted without a PriceAverage
C17_Witness ==
  /\ GuardReturned
  /\ ~IsInf(BuyCost(state, last_return[1].frame.material_ticker))
  /\ state.dynamic_market_data[
       MarketIdx(state, last_return[1].frame.material_ticker)].PriceAverage = <<>>

\* a call beyond maxDepth returned the PriceAverage of a material quoted with it only
C17_AverageWitness ==
  /\ GuardReturned
  /\ last_return[1].result.source = "BUY"
  /\ last_return[1].result.cost = BuyCost(state, last_return[1].frame.material_ticker)

\* --------------------------------------------------------------------- C18
\* the materials the recipe needs, directly or through the recipes of its inputs
InputClosure(st, i) ==
  LET Direct(ms) ==
        {st.static_recipes[j].Inputs[k].MaterialTicker :
           <<j, k>> \in {jk \in (1..Len(st.static_recipes)) \X (1..3) :
                          /\ jk[2] <= Len(st.static_recipes[jk[1]].Inputs)
                          /\ \E m \in ms : Produces(st.static_recipes[jk[1]], m)}}
      f[n \in 0..Len(st.static_materials)] ==
        IF n = 0
        THEN {st.static_recipes[i].Inputs[k].MaterialTicker :
                k \in 1..Len(st.static_recipes[i].Inputs)}
        ELSE f[n - 1] \cup Direct(f[n - 1])
  IN  f[Len(st.static_materials)]

\* the buildings a chain for recipe i can hold: its own and those of the recipes
\* producing what it needs
ChainTickers(st, i) ==
  {st.static_recipes[i].BuildingTicker}
    \cup {st.static_recipes[j].BuildingTicker :
            j \in {j \in 1..Len(st.static_recipes) :
                     \E m \in InputClosure(st, i) : Produces(st.static_recipes[j], m)}}

\* C18: a recipe with an input of infinite resolved cost is never the production
\* recipe of its call and adds no building to the list the call returns; the call
\* goes on with the remaining recipes and returns normally.
C18_InfiniteInputRecipeSkipped ==
  /\ pc # "error"
  /\ \A k \in 1..Len(stack) :
       /\ \A j \in 1..Len(stack[k].skipped) :
            stack[k].best_production_recipe # stack[k].skipped[j]
       /\ stack[k].phase \in {"recipes", "inputs", "await"} =>
            Len(stack[k].skipped) < stack[k].ri
  /\ (last_return # <<>> /\ last_return[1].result.source = "PRODUCE") =>
       /\ \A j \in 1..Len(last_return[1].frame.skipped) :
            last_return[1].frame.best_production_recipe # last_return[1].frame.skipped[j]
       /\ \A b \in 1..Len(last_return[1].result.subs) :
            last_return[1].result.subs[b].building_ticker
              \in ChainTickers(state, last_return[1].frame.best_production_recipe)

\* a call returned PRODUCE after leaving a recipe whose inputs had already brought
\* sub-buildings
C18_Witness ==
  /\ last_return # <<>>
  /\ last_return[1].result.source = "PRODUCE"
  /\ last_return[1].frame.skipped # <<>>
  /\ \E j \in 1..Len(last_return[1].frame.skipped) :
       /\ last_return[1].frame.skipped[j] < last_return[1].frame.best_production_recipe
       /\ Len(state.static_recipes[last_return[1].frame.skipped[j]].Inputs) > 1

\* --------------------------------------------------------------------- C19
\* input cost per unit plus the construction cost spread over one year of output
StatedCostPerUnit(st, e, ticker) ==
  LET recipe == st.static_recipes[e.recipe]
      out == OutputAmount(recipe, ticker)
      per_year == RMul(RInt(out * 365), RDiv(RInt(MS_IN_DAY), e.effective_duration_ms))
  IN  RAdd(RDiv(e.total_input_cost, RInt(out)),
           RDiv(RInt(ConstructionCost(st, recipe.BuildingTicker)), per_year))

\* the position in the frame's costed recipes of the first one no other is below
FirstCheapest(st, f) ==
  CHOOSE m \in 1..Len(f.evaluated) :
    /\ \A j \in 1..Len(f.evaluated) :
         RLe(StatedCostPerUnit(st, f.evaluated[m], f.material_ticker),
             StatedCostPerUnit(st, f.evaluated[j], f.material_ticker))
    /\ \A j \in 1..(m - 1) :
         RLt(StatedCostPerUnit(st, f.evaluated[m], f.material_ticker),
             StatedCostPerUnit(st, f.evaluated[j], f.material_ticker))

\* the frame keeps the first cheapest of the recipes it has costed so far
KeepsFirstCheapest(st, f) ==
  IF f.evaluated = <<>> THEN f.best_production_recipe = 0
  ELSE \E m \in {FirstCheapest(st, f)} :
         /\ f.best_production_recipe = f.evaluated[m].recipe
         /\ f.best_production_cost_per_unit
              = StatedCostPerUnit(st, f.evaluated[m], f.material_ticker)
         /\ \A j \in 1..(Len(f.evaluated) - 1) :
              f.evaluated[j].recipe < f.evaluated[j + 1].recipe

\* C19: among the viable recipes of a material the resolver keeps the one of lowest
\* per-unit cost (input cost per unit plus construction cost amortized over a year
\* of output); of two recipes of equal cost it keeps the earlier in catalog order.
C19_KeepsFirstCheapest ==
  /\ \A k \in 1..Len(stack) : KeepsFirstCheapest(state, stack[k])
  /\ last_return # <<>> => KeepsFirstCheapest(state, last_return[1].frame)

\* a call returned after costing two recipes of equal per-unit cost
C19_Witness ==
  /\ last_return # <<>>
  /\ Len(last_return[1].frame.evaluated) = 2
  /\ last_return[1].frame.evaluated[1].cost_per_unit_produced
       = last_return[1].frame.evaluated[2].cost_per_unit_produced
  /\ last_return[1].frame.best_production_recipe = last_return[1].frame.evaluated[1].recipe

\* a call returned after costing a recipe strictly cheaper than the one before it
C19_LaterWitness ==
  /\ last_return # <<>>
  /\ Len(last_return[1].frame.evaluated) = 2
  /\ RLt(last_return[1].frame.evaluated[2].cost_per_unit_produced,
         last_return[1].frame.evaluated[1].cost_per_unit_produced)
  /\ last_return[1].frame.best_production_recipe = last_return[1].frame.evaluated[2].recipe

\* --------------------------------------------------------------------- C20
\* C20: whenever the resolver returns PRODUCE, the last element of the returned list
\* is one unit of the chosen recipe's building, on the planet resolved for that
\* recipe, at the one-unit construction cost of that same building, also where
\* several recipes produce the material.
C20_LastIsChosenBuilding ==
  (last_return # <<>> /\ last_return[1].result.source = "PRODUCE") =>
    \E f \in {last_return[1].frame} :
    \E subs \in {last_return[1].result.subs} :
      /\ subs # <<>>
      /\ subs[Len(subs)] =
           RecommendedBuilding(
             state.static_recipes[f.best_production_recipe].BuildingTicker, 1,
             ConstructionCost(state,
                              state.static_recipes[f.best_production_recipe].BuildingTicker),
             f.best_production_planet_id, None)
      /\ last_return[1].result.planet = f.best_production_planet_id

\* PRODUCE was returned for a material whose chosen recipe was not the last costed
C20_Witness ==
  /\ last_return # <<>>
  /\ last_return[1].result.source = "PRODUCE"
  /\ Len(last_return[1].frame.evaluated) > 1
  /\ last_return[1].frame.best_production_recipe
       # last_return[1].frame.evaluated[Len(last_return[1].frame.evaluated)].recipe

\* ---------------------------------------------------------------- C21
\* the selector's suitability requirement as the specification states it
StatedSuitable(st, planet, category, building_ticker) ==
  LET made == {i \in 1..Len(st.static_recipes) :
                 /\ st.static_recipes[i].BuildingTicker = building_ticker
                 /\ st.static_recipes[i].Outputs # <<>>}
      determined == building_ticker \notin {None, ""} /\ made # {}
      first == CHOOSE i \in made : \A j \in made : i <= j
      extracted == st.static_recipes[first].Outputs[1].MaterialTicker
      named == {i \in 1..Len(st.static_materials) :
                  st.static_materials[i].MaterialTicker = extracted}
      mid == st.static_materials[CHOOSE i \in named : \A j \in named : i <= j].MaterialId
      type == CASE building_ticker = "RIG" -> "LIQUID"
                [] building_ticker = "EXT" -> "MINERAL"
                [] building_ticker = "COL" -> "GASEOUS"
                [] OTHER -> "no type"
  IN  CASE category = "AGRICULTURE" -> planet.Fertility > 0
        [] category = "RESOURCE_EXTRACTION" ->
             IF determined
             THEN /\ named # {}
                  /\ \E k \in 1..Len(planet.Resources) :
                       /\ planet.Resources[k].MaterialId = mid
                       /\ planet.Resources[k].Factor > 0
                       /\ planet.Resources[k].ResourceType = type
             ELSE \E k \in 1..Len(planet.Resources) : planet.Resources[k].Factor > 0
        [] category \in INDUSTRIAL_CATEGORIES ->
             \/ /\ planet.COGCProgramStatus = "ACTIVE"
                /\ \E k \in 1..Len(planet.COGCPrograms) :
                     /\ planet.COGCPrograms[k].ProgramType = "ADVERTISING_" \o category
                     /\ planet.COGCPrograms[k].StartEpochMs <= now
                     /\ now <= planet.COGCPrograms[k].EndEpochMs
             \/ planet.HasLocalMarket
             \/ planet.HasChamberOfCommerce
        [] OTHER -> TRUE

\* the categories and buildings a caller may pass to the selector
SelectorCategories ==
  {"AGRICULTURE", "RESOURCE_EXTRACTION", "FOOD_PROCESSING", "METALURGY", "agriculture", None}

SelectorBuildings == DOMAIN state.static_buildings \cup {"COL", None}

\* the planets of the snapshot that are stated suitable
StatedSuitablePlanets(category, building_ticker) ==
  {i \in 1..Len(state.all_planets_data) :
     StatedSuitable(state, state.all_planets_data[i], category, building_ticker)}

SelectorAsStated(category, building_ticker) ==
  LET from == find_best_expansion_planet(state, category, building_ticker, now)
  IN  /\ \A k \in 1..Len(from) : from[k] \in StatedSuitablePlanets(category, building_ticker)
      /\ (from = <<>>) <=> (StatedSuitablePlanets(category, building_ticker) = {})

\* the resolver is at line 424, about to ask the selector for a planet
AtSelectorCall ==
  /\ pc = "resolve" /\ stack # <<>> /\ Top.phase = "recipes"
  /\ Top.ri <= Len(Top.possible_recipes)
  /\ Top.preferred_planet_id = None
  /\ state.all_planets_data # <<>>

SelectorCategory == _get_material_production_category(state, Top.material_ticker, hashseed)

SelectorBuilding == state.static_recipes[Top.possible_recipes[Top.ri]].BuildingTicker

PlanetIdx(planet_id) ==
  CHOOSE i \in 1..Len(state.all_planets_data) : state.all_planets_data[i].PlanetId = planet_id

\* C21: find_best_expansion_planet returns a planet only if the planet meets the
\* category's suitability requirement, and returns none exactly when no planet of
\* the input is suitable: for every category and building a caller may pass, and
\* for the planet every selector call of the run hands back to the resolver.
C21_SelectorReturnsSuitable ==
  /\ [](\A c \in SelectorCategories, b \in SelectorBuildings : SelectorAsStated(c, b))
  /\ [][(AtSelectorCall /\ stack' # stack) =>
          LET suitable == StatedSuitablePlanets(SelectorCategory, SelectorBuilding)
              after == stack'[Len(stack)]
          IN  IF after.phase = "inputs"
              THEN PlanetIdx(after.planet_for_this_production) \in suitable
              ELSE suitable = {}]_vars

\* an extraction building was given the one planet that carries its mineral, while
\* another planet carries the same material as a gas and as an exhausted deposit
C21_Witness ==
  /\ pc = "resolve" /\ stack # <<>> /\ Top.phase = "inputs"
  /\ Top.material_ticker = "FE" /\ Top.is_final_material
  /\ Top.planet_for_this_production = "P3"
  /\ Len(state.all_planets_data) = 3
  /\ StatedSuitablePlanets("RESOURCE_EXTRACTION", "EXT") = {2}
  /\ StatedSuitablePlanets("RESOURCE_EXTRACTION", "COL") = {2, 3}
  /\ StatedSuitablePlanets("RESOURCE_EXTRACTION", "RIG") = {3}

\* the selector returned none for a liquid no planet of the snapshot carries
C21_NoneWitness ==
  /\ pc = "resolve" /\ stack # <<>> /\ Top.phase = "recipes"
  /\ Top.material_ticker = "LIQ" /\ Top.is_final_material /\ Top.ri = 2
  /\ Len(state.all_planets_data) = 2
  /\ StatedSuitablePlanets("RESOURCE_EXTRACTION", "RIG") = {}

\* ---------------------------------------------------------------- C22
\* the stated-suitable planets with an ACTIVE program ADVERTISING_<category>
\* whose window covers the current time
StatedPreferredPlanets(category, building_ticker) ==
  {i \in StatedSuitablePlanets(category, building_ticker) :
     LET planet == state.all_planets_data[i]
     IN  /\ category \notin {None, ""}
         /\ planet.COGCProgramStatus = "ACTIVE"
         /\ \E k \in 1..Len(planet.COGCPrograms) :
              /\ planet.COGCPrograms[k].ProgramType = "ADVERTISING_" \o category
              /\ planet.COGCPrograms[k].StartEpochMs <= now
              /\ now <= planet.COGCPrograms[k].EndEpochMs}

SelectorPrefersProgram(category, building_ticker) ==
  LET from == find_best_expansion_planet(state, category, building_ticker, now)
      preferred == StatedPreferredPlanets(category, building_ticker)
  IN  preferred # {} => \A k \in 1..Len(from) : from[k] \in preferred

\* C22: whenever a suitable planet has an ACTIVE COGC program of type
\* ADVERTISING_<category> covering the current time, the planet returned by
\* find_best_expansion_planet is one of those planets; a planet without such a
\* program is returned only when no suitable planet has one.
C22_ProgramPlanetsPreferred ==
  /\ [](\A c \in SelectorCategories, b \in SelectorBuildings : SelectorPrefersProgram(c, b))
  /\ [][(AtSelectorCall /\ stack' # stack) =>
          LET preferred == StatedPreferredPlanets(SelectorCategory, SelectorBuilding)
              after == stack'[Len(stack)]
          IN  (preferred # {} /\ after.phase = "inputs")
                => PlanetIdx(after.planet_for_this_production) \in preferred]_vars

\* the selector was asked while P1's FOOD_PROCESSING program was running and P2,
\* with its local market, was suitable too: the resolver received P1
C22_Witness ==
  /\ pc = "resolve" /\ stack # <<>> /\ Top.phase = "inputs"
  /\ Top.material_ticker = "RAT" /\ Top.is_final_material
  /\ Top.preferred_planet_id = None
  /\ now = 0
  /\ StatedSuitablePlanets("FOOD_PROCESSING", "FP") = {1, 2}
  /\ StatedPreferredPlanets("FOOD_PROCESSING", "FP") = {1}
  /\ Top.planet_for_this_production = "P1"

\* the program had ended when the selector was asked: the resolver received P2
C22_ExpiredWitness ==
  /\ pc = "resolve" /\ stack # <<>> /\ Top.phase = "inputs"
  /\ Top.material_ticker = "RAT" /\ Top.is_final_material
  /\ Top.preferred_planet_id = None
  /\ now = 1
  /\ StatedSuitablePlanets("FOOD_PROCESSING", "FP") = {2}
  /\ Top.planet_for_this_production = "P2"
  /\ Top.ii = 1

\* ---------------------------------------------------------------- C23
\* the stated area budget of a site, 975
SiteBudget == 500 + 2 * 250 - 25

\* the summed area of the buildings recommended on a planet entry
PlacedArea(planet_rec) ==
  LET bs == planet_rec.recommended_buildings_on_planet
      area[i \in 0..Len(bs)] ==
        IF i = 0 THEN 0
        ELSE area[i - 1]
               + (IF state.static_buildings[bs[i].building_ticker].area = <<>> THEN 0
                  ELSE state.static_buildings[bs[i].building_ticker].area[1]
                         * bs[i].amount_to_build)
  IN  area[Len(bs)]

Allocating == pc \in {"alloc_for", "alloc_while"}

\* the entry of planet_id in a map, as it stands or as a new entry would start
EntryOf(map, planet_id) ==
  IF \E k \in 1..Len(map) : map[k].planet_id = planet_id
  THEN map[CHOOSE k \in 1..Len(map) : map[k].planet_id = planet_id]
  ELSE [planet_id |-> planet_id, recommended_buildings_on_planet |-> <<>>]

\* a batch was placed on the entry: it has one more building than before the step
BatchPlacedOn(after) ==
  Len(after.recommended_buildings_on_planet)
    = Len(EntryOf(planet_recommendations_map, after.planet_id)
            .recommended_buildings_on_planet) + 1

BatchAsStated(after) ==
  LET before == EntryOf(planet_recommendations_map, after.planet_id)
      batch == after.recommended_buildings_on_planet[
                 Len(after.recommended_buildings_on_planet)]
      building_area == state.static_buildings[batch.building_ticker].area
  IN  /\ building_area # <<>> /\ building_area[1] > 0
      /\ \E q \in 0..SiteBudget :
           /\ q * building_area[1] <= SiteBudget - PlacedArea(before)
           /\ SiteBudget - PlacedArea(before) < (q + 1) * building_area[1]
           /\ batch.amount_to_build
                = (IF remaining_amount_to_place <= q THEN remaining_amount_to_place ELSE q)

\* C23: at every point during allocation the summed area of the production
\* buildings placed on any one RecommendedPlanet is at most 975, and each batch
\* places exactly min(remainingUnits, floor((975 - areaAlreadyUsed) / buildingArea))
\* units on the chosen planet.
C23_AreaBudgetAndBatch ==
  /\ [](Allocating =>
          \A k \in 1..Len(planet_recommendations_map) :
            PlacedArea(planet_recommendations_map[k]) <= SiteBudget)
  /\ [][Allocating =>
          \A k \in 1..Len(planet_recommendations_map') :
            BatchPlacedOn(planet_recommendations_map'[k])
              => BatchAsStated(planet_recommendations_map'[k])]_vars

\* a batch smaller than the remaining units was placed on a planet that already
\* carried buildings: one RIG in the 175 area units left beside two EXT
C23_Witness ==
  /\ pc = "alloc_while" /\ remaining_amount_to_place = 1
  /\ chain_buildings[chain_idx].building_ticker = "RIG"
  /\ \E k \in 1..Len(planet_recommendations_map) :
       LET bs == planet_recommendations_map[k].recommended_buildings_on_planet
       IN  /\ Len(bs) = 2
           /\ bs[1].building_ticker = "EXT" /\ bs[1].amount_to_build = 2
           /\ bs[2].building_ticker = "RIG" /\ bs[2].amount_to_build = 1
           /\ PlacedArea(planet_recommendations_map[k]) = 900

\* ---------------------------------------------------------------- C24
\* the units of a building type placed across all recommended planets
TotalPlaced(ticker) ==
  LET map == planet_recommendations_map
      on[k \in 0..Len(map)] ==
        IF k = 0 THEN 0
        ELSE LET bs == map[k].recommended_buildings_on_planet
                 units[i \in 0..Len(bs)] ==
                   IF i = 0 THEN 0
                   ELSE units[i - 1] + (IF bs[i].building_ticker = ticker
                                        THEN bs[i].amount_to_build ELSE 0)
             IN  on[k - 1] + units[Len(bs)]
  IN  on[Len(map)]

\* template amount x chain-sets, over the chain's templates of that building type
RequiredUnits(ticker) ==
  LET req[i \in 0..Len(chain_buildings)] ==
        IF i = 0 THEN 0
        ELSE req[i - 1] + (IF chain_buildings[i].building_ticker = ticker
                           THEN chain_buildings[i].amount_to_build * num_chain_sets_to_build
                           ELSE 0)
  IN  req[Len(chain_buildings)]

\* the for loop has left the templates of that building type behind
TypeDone(ticker) ==
  \A i \in 1..Len(chain_buildings) :
    chain_buildings[i].building_ticker = ticker => i < chain_idx

Abandoned(ticker) ==
  \E e \in 1..Len(simulation_log) :
    simulation_log[e].event = "no_planet" /\ simulation_log[e].building = ticker

\* the area one unit of the building takes (0.0 when the table gives none)
UnitArea(ticker) ==
  IF state.static_buildings[ticker].area = <<>> THEN 0
  ELSE state.static_buildings[ticker].area[1]

\* a planet of the snapshot that is suitable for the building's category and has
\* spare area for one more unit of it
HasRoomFor(ticker) ==
  \E i \in 1..Len(state.all_planets_data) :
    LET planet == state.all_planets_data[i]
    IN  /\ StatedSuitable(state, planet,
                          _get_building_expertise_category(state, ticker), ticker)
        /\ UnitArea(ticker)
             <= SiteBudget - PlacedArea(EntryOf(planet_recommendations_map, planet.PlanetId))

\* the step of lines 790-792: the remaining units of the template are abandoned
AbandonStep ==
  /\ pc = "alloc_while"
  /\ Len(simulation_log') = Len(simulation_log) + 1
  /\ simulation_log'[Len(simulation_log')].event = "no_planet"

\* C24: for each chain building type the units placed across all recommended
\* planets never exceed the required units, and fall short of them only if, when
\* the remainder is abandoned, no planet suitable for the building's category has
\* spare area for one more unit; the abandonment is logged and the run continues
\* with the next building type.
C24_PlacedUpToRequired ==
  /\ [](pc \in {"alloc_for", "alloc_while", "housing", "permits", "done"} =>
          \A i \in 1..Len(chain_buildings) :
            LET ticker == chain_buildings[i].building_ticker
            IN  /\ TotalPlaced(ticker) <= RequiredUnits(ticker)
                /\ (TypeDone(ticker) /\ TotalPlaced(ticker) < RequiredUnits(ticker))
                     => Abandoned(ticker))
  /\ [][AbandonStep =>
          /\ ~HasRoomFor(chain_buildings[chain_idx].building_ticker)
          /\ simulation_log'[Len(simulation_log')].building
               = chain_buildings[chain_idx].building_ticker
          /\ pc' = "alloc_for" /\ chain_idx' = chain_idx + 1]_vars

\* the same with building types of undefined or zero area left out
C24_PositiveAreaOnly ==
  /\ [](pc \in {"alloc_for", "alloc_while", "housing", "permits", "done"} =>
          \A i \in 1..Len(chain_buildings) :
            LET ticker == chain_buildings[i].building_ticker
            IN  /\ TotalPlaced(ticker) <= RequiredUnits(ticker)
                /\ (TypeDone(ticker) /\ TotalPlaced(ticker) < RequiredUnits(ticker))
                     => Abandoned(ticker))
  /\ [][(AbandonStep /\ UnitArea(chain_buildings[chain_idx].building_ticker) > 0) =>
          /\ ~HasRoomFor(chain_buildings[chain_idx].building_ticker)
          /\ simulation_log'[Len(simulation_log')].building
               = chain_buildings[chain_idx].building_ticker
          /\ pc' = "alloc_for" /\ chain_idx' = chain_idx + 1]_vars

\* a run returned with every unit of a building whose area the table does not
\* give abandoned, while both planets of the snapshot were empty
C24_Witness ==
  /\ pc = "done" /\ recommendation # <<>>
  /\ Len(chain_buildings) = 1 /\ chain_buildings[1].building_ticker = "BX"
  /\ state.static_buildings["BX"].area = <<>>
  /\ Abandoned("BX") /\ TotalPlaced("BX") = 0 /\ RequiredUnits("BX") = 2
  /\ HasRoomFor("BX")

\* one of two RIG was placed and the other abandoned: the only planet suitable for
\* it had 75 area units left, a RIG takes 100
C24_PartialWitness ==
  /\ pc = "done" /\ recommendation # <<>>
  /\ Abandoned("RIG") /\ TotalPlaced("RIG") = 1 /\ RequiredUnits("RIG") = 2
  /\ ~HasRoomFor("RIG")

\* ---------------------------------------------------------------- C25
\* the catalog housing buildings that exist in the static building table and
\* provide positive capacity for the workforce type
StatedHousingFor(wf_type) ==
  {t \in HousingTickers :
     t \in DOMAIN state.static_buildings /\ CapacityPerUnit(t, wf_type) > 0}

\* what the optimization goal minimises per capacity unit: cost, or area
GoalMeasure(ticker) ==
  IF args.optimization_goal = "less area"
  THEN (IF state.static_buildings[ticker].area = <<>> THEN 0
        ELSE state.static_buildings[ticker].area[1])
  ELSE ConstructionCost(state, ticker)

\* no stated candidate has a smaller measure per capacity unit for the type
MinimalFor(ticker, wf_type) ==
  /\ ticker \in StatedHousingFor(wf_type)
  /\ \A other \in StatedHousingFor(wf_type) :
       GoalMeasure(ticker) * CapacityPerUnit(other, wf_type)
         <= GoalMeasure(other) * CapacityPerUnit(ticker, wf_type)

\* the workforce types of the planet with positive demand
DemandedTypes(planet_rec) ==
  SelectSeq(planet_rec.total_estimated_workforce_needed_on_planet,
            LAMBDA wf : wf.amount > 0)

\* the demanded types some stated candidate houses
ServedTypes(planet_rec) ==
  SelectSeq(DemandedTypes(planet_rec), LAMBDA wf : StatedHousingFor(wf.type) # {})

ProductionEntries(planet_rec) ==
  SelectSeq(planet_rec.recommended_buildings_on_planet,
            LAMBDA b : b.building_ticker \notin HousingTickers)

\* the planet's cost before permits: its production entries and, for each housing
\* entry, the construction cost of the units built
CostBeforePermits(planet_rec) ==
  LET ps == ProductionEntries(planet_rec)
      hs == HousingEntries(planet_rec)
      p[i \in 0..Len(ps)] ==
        IF i = 0 THEN 0 ELSE p[i - 1] + ps[i].estimated_cost_credits
      h[i \in 0..Len(hs)] ==
        IF i = 0 THEN 0
        ELSE h[i - 1] + ConstructionCost(state, hs[i].building_ticker)
                          * hs[i].amount_to_build
  IN  p[Len(ps)] + h[Len(hs)]

HousingAsStated(planet_rec) ==
  \E served \in {ServedTypes(planet_rec)} :
  \E entries \in {HousingEntries(planet_rec)} :
    /\ Len(entries) = Len(served)
    /\ \A k \in 1..Len(served) : MinimalFor(entries[k].building_ticker, served[k].type)

\* C25: for every demanded workforce type on a planet the housing building
\* selected is, among the catalog housing buildings that exist in the static
\* building table and provide positive capacity for that type, one with minimal
\* cost per capacity unit when the goal is absent or "lower cost" and one with
\* minimal area per capacity unit when it is "less area"; a type without such a
\* building adds no housing building and leaves the planet and overall costs alone.
C25_HousingMinimisesGoal ==
  /\ [](\A i \in HousingPlanned :
          /\ HousingAsStated(planet_recommendations_map[i])
          /\ pc = "housing" =>
               planet_recommendations_map[i].total_estimated_cost_credits_on_planet
                 = CostBeforePermits(planet_recommendations_map[i]))
  /\ [][(pc = "housing" /\ loop_idx <= Len(planet_recommendations_map)) =>
          overall_total_estimated_cost' =
            RAdd(overall_total_estimated_cost,
                 RInt(CostBeforePermits(planet_recommendations_map'[loop_idx])
                        - CostBeforePermits(planet_recommendations_map[loop_idx])))]_vars

\* under "less area" the planet got HB1 (10 area for 100 pioneers) although HBB
\* costs less per pioneer housed
C25_Witness ==
  /\ args.optimization_goal = "less area"
  /\ \E i \in HousingPlanned :
       LET entries == HousingEntries(planet_recommendations_map[i])
       IN  /\ Len(entries) = 1 /\ entries[1].building_ticker = "HB1"
           /\ StatedHousingFor("PIONEER") = {"HB1", "HBB"}
           /\ MinimalFor("HB1", "PIONEER") /\ ~MinimalFor("HBB", "PIONEER")

\* under "lower cost" and without a goal the planet got HBB
C25_CostWitness ==
  /\ args.optimization_goal = "lower cost"
  /\ \E i \in HousingPlanned :
       LET entries == HousingEntries(planet_recommendations_map[i])
       IN  /\ Len(entries) = 1 /\ entries[1].building_ticker = "HBB"
           /\ MinimalFor("HBB", "PIONEER") /\ ~MinimalFor("HB1", "PIONEER")

\* engineers were demanded and no housing building of the static table houses them
C25_NoneWitness ==
  \E i \in HousingPlanned :
    LET planet_rec == planet_recommendations_map[i]
    IN  /\ Len(DemandedTypes(planet_rec)) = 1
        /\ DemandedTypes(planet_rec)[1].type = "ENGINEER"
        /\ StatedHousingFor("ENGINEER") = {}
        /\ HousingEntries(planet_rec) = <<>>
        /\ planet_rec.total_estimated_cost_credits_on_planet > 0

\* ---------------------------------------------------------------- C26
\* the sum of total_estimated_cost_credits_on_planet over the planets
SumOfPlanetTotals(planets) ==
  LET f[i \in 0..Len(planets)] ==
        IF i = 0 THEN 0
        ELSE f[i - 1] + planets[i].total_estimated_cost_credits_on_planet
  IN  f[Len(planets)]

\* capacity_needed of the building for the workforce type, over its requirements
CapacityNeeded(building_ticker, wf_type) ==
  LET reqs == IF building_ticker \in DOMAIN state.static_building_workforces
              THEN state.static_building_workforces[building_ticker] ELSE <<>>
      f[i \in 0..Len(reqs)] ==
        IF i = 0 THEN 0
        ELSE f[i - 1] + (IF reqs[i].workforce_type_name = wf_type
                         THEN reqs[i].capacity_needed ELSE 0)
  IN  f[Len(reqs)]

\* capacity_needed x units over the production buildings placed on the planet
StatedDemand(planet_rec, wf_type) ==
  LET ps == ProductionEntries(planet_rec)
      f[i \in 0..Len(ps)] ==
        IF i = 0 THEN 0
        ELSE f[i - 1] + CapacityNeeded(ps[i].building_ticker, wf_type)
                          * ps[i].amount_to_build
  IN  f[Len(ps)]

\* the demand the planet entry records for the type (0 when it records none)
RecordedDemand(planet_rec, wf_type) ==
  LET wfs == planet_rec.total_estimated_workforce_needed_on_planet
      f[i \in 0..Len(wfs)] ==
        IF i = 0 THEN 0
        ELSE f[i - 1] + (IF wfs[i].type = wf_type THEN wfs[i].amount ELSE 0)
  IN  f[Len(wfs)]

WorkforceTypes ==
  {"PIONEER", "SETTLER", "TECHNICIAN", "ENGINEER", "SCIENTIST"}

\* C26: in every Recommendation returned by run_simulation the total estimated
\* cost equals the sum of the planets' totals (production buildings, housing and
\* permits included), and each planet's workforce demand per type equals the sum
\* of capacity_needed x units over the production buildings placed on it.
C26_TotalsAreSums ==
  recommendation # <<>> =>
    LET planets == recommendation[1].recommended_planets
    IN  /\ recommendation[1].total_estimated_cost_credits = RInt(SumOfPlanetTotals(planets))
        /\ \A i \in 1..Len(planets) : \A t \in WorkforceTypes :
             RecordedDemand(planets[i], t) = StatedDemand(planets[i], t)
        /\ \A i \in 1..Len(planets) :
             \A k \in 1..Len(planets[i].total_estimated_workforce_needed_on_planet) :
               planets[i].total_estimated_workforce_needed_on_planet[k].type
                 \in WorkforceTypes

\* a recommendation over two planets whose totals hold production, housing and a
\* permit, and whose planets record a workforce demand
C26_Witness ==
  /\ recommendation # <<>>
  /\ LET planets == recommendation[1].recommended_planets
     IN  /\ Len(planets) = 2
         /\ \A i \in 1..2 :
              /\ HousingEntries(planets[i]) # <<>>
              /\ ProductionEntries(planets[i]) # <<>>
              /\ RecordedDemand(planets[i], "PIONEER") > 0
         /\ \E i \in 1..2 :
              planets[i].total_estimated_cost_credits_on_planet
                > CostBeforePermits(planets[i])

\* ---------------------------------------------------------------- C27
\* the call run_simulation makes for the target material
FinalCall(f) == f.is_final_material /\ f.recursion_depth = 0

\* the target material has a market quote carrying a price
TargetQuoted ==
  \E i \in 1..Len(state.dynamic_market_data) :
    /\ state.dynamic_market_data[i].MaterialTicker = args.desired_material_ticker
    /\ \/ state.dynamic_market_data[i].Ask # <<>>
       \/ state.dynamic_market_data[i].Bid # <<>>
       \/ state.dynamic_market_data[i].PriceAverage # <<>>

\* C27: the CostResolver call run_simulation makes for the target material
\* (isFinal, depth 0) never returns source BUY, only PRODUCE or UNKNOWN, so the
\* BUY branch of run_simulation is never taken; a target with a market quote and
\* no viable recipe yields a Recommendation with no planet and total cost 0.
C27_FinalNeverBuys ==
  /\ source_type \in {None, "PRODUCE", "UNKNOWN"}
  /\ (last_return # <<>> /\ FinalCall(last_return[1].frame))
       => last_return[1].result.source \in {"PRODUCE", "UNKNOWN"}
  /\ (recommendation # <<>> /\ source_type = "UNKNOWN")
       => /\ recommendation[1].recommended_planets = <<>>
          /\ recommendation[1].total_estimated_cost_credits = RInt(0)
  /\ (pc \in {"housing", "permits", "done"} /\ source_type # "PRODUCE")
       => planet_recommendations_map = <<>> /\ overall_total_estimated_cost = RInt(0)

\* the target has a quote, its only recipe was not viable, and the run returned an
\* empty recommendation of cost 0
C27_Witness ==
  /\ recommendation # <<>> /\ TargetQuoted
  /\ RPos(production_gap)
  /\ source_type = "UNKNOWN"
  /\ last_return # <<>> /\ FinalCall(last_return[1].frame)
  /\ last_return[1].frame.buy_cost_per_unit # Inf
  /\ last_return[1].frame.possible_recipes # <<>>
  /\ recommendation[1].recommended_planets = <<>>

\* the same for a quoted target that no recipe makes
C27_NoRecipeWitness ==
  /\ recommendation # <<>> /\ TargetQuoted
  /\ RPos(production_gap)
  /\ source_type = "UNKNOWN"
  /\ last_return # <<>> /\ FinalCall(last_return[1].frame)
  /\ last_return[1].frame.possible_recipes = <<>>

\* the target has a quote below its production cost, and the final call returned
\* PRODUCE
C27_ProduceWitness ==
  /\ last_return # <<>> /\ FinalCall(last_return[1].frame) /\ TargetQuoted
  /\ last_return[1].result.source = "PRODUCE"
  /\ RLt(last_return[1].frame.buy_cost_per_unit, last_return[1].result.cost)

\* ---------------------------------------------------------------- C28
\* the sum of estimated_cost_credits over the planet's recommended buildings
SumOfBuildingCosts(planet_rec) ==
  LET bs == planet_rec.recommended_buildings_on_planet
      f[i \in 0..Len(bs)] ==
        IF i = 0 THEN 0 ELSE f[i - 1] + bs[i].estimated_cost_credits
  IN  f[Len(bs)]

\* the planet total as stated: its building entries plus 50000 per permit
PlanetTotalAsStated(i) ==
  LET planet_rec == recommendation[1].recommended_planets[i]
  IN  planet_rec.total_estimated_cost_credits_on_planet
        = SumOfBuildingCosts(planet_rec) + 50000 * permits_log[i]

\* C28: in every returned Recommendation each planet's total estimated cost
\* equals the sum of estimated_cost_credits over its recommended buildings,
\* production and housing entries alike, plus 50000 x the permits recommended for
\* the planet, for every number of housing units.
C28_PlanetTotalIsSumOfEntries ==
  recommendation # <<>> =>
    \A i \in 1..Len(recommendation[1].recommended_planets) : PlanetTotalAsStated(i)

\* the same for the planets whose housing entries are all of one unit
C28_SingleHousingUnits ==
  recommendation # <<>> =>
    \A i \in 1..Len(recommendation[1].recommended_planets) :
      (\A k \in 1..Len(HousingEntries(recommendation[1].recommended_planets[i])) :
         HousingEntries(recommendation[1].recommended_planets[i])[k].amount_to_build = 1)
        => PlanetTotalAsStated(i)

\* a returned planet with a housing entry of two units whose total is above the
\* sum of its entries and permits by the cost of the second unit
C28_Witness ==
  /\ recommendation # <<>>
  /\ \E i \in 1..Len(recommendation[1].recommended_planets) :
       LET planet_rec == recommendation[1].recommended_planets[i]
           hs == HousingEntries(planet_rec)
       IN  /\ Len(hs) = 1 /\ hs[1].amount_to_build = 2
           /\ planet_rec.total_estimated_cost_credits_on_planet
                = SumOfBuildingCosts(planet_rec) + 50000 * permits_log[i]
                    + hs[1].estimated_cost_credits

\* a returned planet with production, one housing unit and a permit whose total
\* is the sum of its entries and permit
C28_OneUnitWitness ==
  /\ recommendation # <<>>
  /\ \E i \in 1..Len(recommendation[1].recommended_planets) :
       LET planet_rec == recommendation[1].recommended_planets[i]
           hs == HousingEntries(planet_rec)
       IN  /\ Len(hs) = 1 /\ hs[1].amount_to_build = 1
           /\ hs[1].estimated_cost_credits > 0
           /\ permits_log[i] > 0
           /\ PlanetTotalAsStated(i)

\* ---------------------------------------------------------------- C29
\* the batch just appended to the entry sits on a planet that meets the
\* suitability requirement of the building's expertise category
BatchOnSuitablePlanet(after) ==
  LET batch == after.recommended_buildings_on_planet[
                 Len(after.recommended_buildings_on_planet)]
  IN  StatedSuitable(state, PlanetOf(after.planet_id),
                     _get_building_expertise_category(state, batch.building_ticker),
                     batch.building_ticker)

\* the iteration takes its planet from the reuse-existing-planet step
ReuseStep ==
  /\ pc = "alloc_while"
  /\ ExistingPlanetFor(state, planet_recommendations_map,
                       _get_building_expertise_category(
                         state, chain_buildings[chain_idx].building_ticker),
                       BuildingAreaPerUnit(state, chain_buildings[chain_idx].building_ticker))
       # 0

\* C29: every production building of a returned Recommendation is placed on a
\* planet that is suitable for the building's expertise category (for
\* RESOURCE_EXTRACTION: the planet has the resource the building itself extracts,
\* with factor > 0 and matching type), whether the planet comes from the
\* reuse-existing-planet step or from the new-planet scan.
C29_PlacedOnSuitablePlanet ==
  [][Allocating =>
       \A k \in 1..Len(planet_recommendations_map') :
         BatchPlacedOn(planet_recommendations_map'[k])
           => BatchOnSuitablePlanet(planet_recommendations_map'[k])]_vars

\* the same for the new-planet scan alone and categories other than AGRICULTURE
C29_ScanOutsideAgriculture ==
  [][(pc = "alloc_while" /\ ~ReuseStep
        /\ _get_building_expertise_category(
             state, chain_buildings[chain_idx].building_ticker) # "AGRICULTURE") =>
       \A k \in 1..Len(planet_recommendations_map') :
         BatchPlacedOn(planet_recommendations_map'[k])
           => BatchOnSuitablePlanet(planet_recommendations_map'[k])]_vars

\* a returned Recommendation with a RIG on P3, which carries no LIQ, while PL,
\* which carries it, got none
C29_Witness ==
  /\ recommendation # <<>>
  /\ Len(state.all_planets_data) = 3
  /\ TotalPlaced("RIG") = 1 /\ RequiredUnits("RIG") = 1
  /\ \E i \in 1..Len(recommendation[1].recommended_planets) :
       LET planet_rec == recommendation[1].recommended_planets[i]
       IN  /\ planet_rec.planet_id = "P3"
           /\ \E k \in 1..Len(planet_rec.recommended_buildings_on_planet) :
                planet_rec.recommended_buildings_on_planet[k].building_ticker = "RIG"
           /\ ~StatedSuitable(state, PlanetOf("P3"), "RESOURCE_EXTRACTION", "RIG")
  /\ \E j \in 1..3 :
       StatedSuitable(state, state.all_planets_data[j], "RESOURCE_EXTRACTION", "RIG")

\* a returned Recommendation with an AGRICULTURE building on a planet of
\* fertility 0, chosen by the new-planet scan
C29_InfertileWitness ==
  /\ recommendation # <<>>
  /\ _get_building_expertise_category(state, "FP") = "AGRICULTURE"
  /\ \E i \in 1..Len(recommendation[1].recommended_planets) :
       LET planet_rec == recommendation[1].recommended_planets[i]
       IN  /\ PlanetOf(planet_rec.planet_id).Fertility = 0
           /\ planet_rec.recommended_buildings_on_planet # <<>>
           /\ planet_rec.recommended_buildings_on_planet[1].building_ticker = "FP"

\* ---------------------------------------------------------------- C30
\* the entry's buildings all carry the entry's planet_id and site_id
CarriesOwnIds(planet_rec) ==
  \A k \in 1..Len(planet_rec.recommended_buildings_on_planet) :
    /\ planet_rec.recommended_buildings_on_planet[k].planet_id = planet_rec.planet_id
    /\ planet_rec.recommended_buildings_on_planet[k].site_id = planet_rec.site_id

DistinctPlanets(planets) ==
  \A i, j \in 1..Len(planets) : planets[i].planet_id = planets[j].planet_id => i = j

\* C30: every RecommendedPlanet of a returned Recommendation has at least one
\* recommended building, no two entries share a planet id, and every building
\* listed under a planet carries that planet's planet_id and site_id, also when a
\* chain building's area exceeds the 975-unit site budget.
C30_PlanetsHoldTheirBuildings ==
  recommendation # <<>> =>
    LET planets == recommendation[1].recommended_planets
    IN  /\ DistinctPlanets(planets)
        /\ \A i \in 1..Len(planets) :
             /\ planets[i].recommended_buildings_on_planet # <<>>
             /\ CarriesOwnIds(planets[i])

\* the same without the requirement that an entry holds a building
C30_IdsOnly ==
  recommendation # <<>> =>
    LET planets == recommendation[1].recommended_planets
    IN  /\ DistinctPlanets(planets)
        /\ \A i \in 1..Len(planets) : CarriesOwnIds(planets[i])

\* the chain's building takes 976 area units: the Recommendation came back with an
\* entry for each planet and no building on either
C30_Witness ==
  /\ recommendation # <<>>
  /\ Len(chain_buildings) = 1
  /\ UnitArea(chain_buildings[1].building_ticker) > SiteBudget
  /\ Len(recommendation[1].recommended_planets) = 2
  /\ \A i \in 1..2 :
       recommendation[1].recommended_planets[i].recommended_buildings_on_planet = <<>>

\* a Recommendation over two planets, each with production and housing entries that
\* carry its ids
C30_FilledWitness ==
  /\ recommendation # <<>>
  /\ Len(recommendation[1].recommended_planets) = 2
  /\ \A i \in 1..2 :
       /\ Len(recommendation[1].recommended_planets[i].recommended_buildings_on_planet) >= 2
       /\ CarriesOwnIds(recommendation[1].recommended_planets[i])
  /\ recommendation[1].recommended_planets[1].site_id
       # recommendation[1].recommended_planets[2].site_id

====
